---- MODULE Spec2Model ----
(***************************************************************************)
(* Stick-figure choreography engine: Pose interpolation, the Action        *)
(* keyframe compiler, Figure (one current action timeline per skeleton)    *)
(* and Sequence (beats merged into one master timeline).                   *)
(*                                                                         *)
(* Numbers.  Normalized keyframe times and preview times lie on the grid   *)
(* k / TDen.  Absolute time is counted in units of 1/TDen second, action   *)
(* durations are whole seconds.  Interpolated values are kept in fixed     *)
(* point: a value v is stored as v * Units, and Units is chosen so that    *)
(* every quotient the model forms is exact.                                *)
(*                                                                         *)
(* The tween engine (gsap) is not part of the repository.  It is modelled  *)
(* at the calls the sources make on it: timeline(), to(), add(), call(),   *)
(* seek(), play(), pause(), kill().  A nested timeline is rendered by its  *)
(* parent's playhead; kill() detaches a timeline from its parent.          *)
(*                                                                         *)
(* Specifications.  Spec: one sequence edited, built, played and sought,   *)
(* with two figures that are also driven directly.  SpecShared: two        *)
(* sequences over the same figures.  SpecBeats: the beat list alone.       *)
(* SpecAction: one action, previewed and driven live.  SpecPreview: any     *)
(* action previewed at any time.  SpecPose: two poses                      *)
(* interpolated and subtracted.  SpecSkeleton: one skeleton, its local and  *)
(* world transforms.  SpecLoad: a skeleton of any definition, constructed, *)
(* updated and reset step by step.  SpecCompile: any action compiled into  *)
(* its timeline.  SpecPlay: any beat list played to its end.               *)
(***************************************************************************)
EXTENDS Integers, Sequences, FiniteSets, TLC

\* ------------------------------------------------------------------ bounds
TDen == 4       \* the time grid: normalized times are k / TDen
MaxBeats == 2   \* beats per sequence
MaxOps == 5     \* operations per history
MaxListBeats == 3   \* beats per sequence where only the beat list is edited

RECURSIVE GCD(_, _)
GCD(a, b) == IF b = 0 THEN a ELSE GCD(b, a % b)

RECURSIVE LcmUpTo(_)
LcmUpTo(n) == IF n <= 1 THEN 1 ELSE (LcmUpTo(n - 1) * n) \div GCD(LcmUpTo(n - 1), n)

UnitsRoot == 2 * LcmUpTo(TDen)
Units == UnitsRoot * UnitsRoot * UnitsRoot

Max2(a, b) == IF a > b THEN a ELSE b
Min2(a, b) == IF a < b THEN a ELSE b
Clamp(x, lo, hi) == Max2(lo, Min2(x, hi))

\* --------------------------------------------------------- Pose (Pose.ts)
Channels == {"rotation", "x", "y", "scaleX", "scaleY"}

\* A BoneTransformData is a function from the channels present to numbers;
\* a Pose is a function from the bones it names to BoneTransformData.
Has(tr, ch) == ch \in DOMAIN tr

EmptyTransform == [c \in {} |-> 0]
EmptyPose == [b \in {} |-> EmptyTransform]

NeutralDefault_Zero(ch) == 0

\* from.rotation ?? 0, from.scaleX ?? 1 ...
NeutralDefault(ch) == IF ch \in {"scaleX", "scaleY"} THEN 1 ELSE 0

Get(tr, ch, dflt) == IF Has(tr, ch) THEN tr[ch] ELSE dflt

\* this.boneTransforms.get(boneName) ?? {}
getBoneTransform(pose, boneName) ==
  IF boneName \in DOMAIN pose THEN pose[boneName] ELSE EmptyTransform

\* a + (b - a) * t, with t = tn / td; the result is in fixed point
lerpValue(a, b, tn, td) == a * Units + (b - a) * ((tn * Units) \div td)

RECURSIVE WrapDown(_)
WrapDown(diff) == IF diff > 180 THEN WrapDown(diff - 360) ELSE diff

RECURSIVE WrapUp(_)
WrapUp(diff) == IF diff < -180 THEN WrapUp(diff + 360) ELSE diff

lerpAngle_NoWrap(a, b, tn, td) == a * Units + (b - a) * ((tn * Units) \div td)

lerpAngle(a, b, tn, td) ==
  LET diff == WrapUp(WrapDown(b - a))
  IN  a * Units + diff * ((tn * Units) \div td)

lerpChannel(ch, a, b, tn, td) ==
  IF ch = "rotation" THEN lerpAngle(a, b, tn, td) ELSE lerpValue(a, b, tn, td)

lerp_PresentInBoth(this, target, tn, td) ==
  LET allBones == DOMAIN this \cup DOMAIN target
      from(b) == getBoneTransform(this, b)
      to(b) == getBoneTransform(target, b)
      present(b) == {ch \in Channels : Has(from(b), ch) /\ Has(to(b), ch)}
      interpolated(b) ==
        [ch \in present(b) |-> lerpChannel(ch, from(b)[ch], to(b)[ch], tn, td)]
  IN  [b \in {bb \in allBones : present(bb) # {}} |-> interpolated(b)]

\* Pose.lerp(target, t): the result's values are in fixed point
lerp(this, target, tn, td) ==
  LET allBones == DOMAIN this \cup DOMAIN target
      from(b) == getBoneTransform(this, b)
      to(b) == getBoneTransform(target, b)
      present(b) == {ch \in Channels : Has(from(b), ch) \/ Has(to(b), ch)}
      interpolated(b) ==
        [ch \in present(b) |->
           lerpChannel(ch, Get(from(b), ch, NeutralDefault(ch)),
                       Get(to(b), ch, NeutralDefault(ch)), tn, td)]
  IN  [b \in {bb \in allBones : present(bb) # {}} |-> interpolated(b)]

\* Pose.difference(from, to): rotation, x and y of `to`, minus those of `from`
difference(from, to) ==
  [b \in DOMAIN to |->
     LET toTransform == to[b]
         fromTransform == getBoneTransform(from, b)
     IN  [ch \in {c \in {"rotation", "x", "y"} : Has(toTransform, c)} |->
            toTransform[ch] - Get(fromTransform, ch, 0)]]

\* new Transform(data): every channel, absent ones at (0, 0, 0, 1, 1)
Transform(data) == [ch \in Channels |-> Get(data, ch, NeutralDefault(ch))]

\* Transform.lerpAngle (Transform.ts)
TransformLerpAngle(a, b, tn, td) ==
  LET diff == WrapUp(WrapDown(b - a))
  IN  a * Units + diff * ((tn * Units) \div td)

\* Transform.lerp(target, t): the result is in fixed point
TransformLerp(this, target, tn, td) ==
  [ch \in Channels |->
     IF ch = "rotation"
     THEN TransformLerpAngle(this.rotation, target.rotation, tn, td)
     ELSE this[ch] * Units + (target[ch] - this[ch]) * ((tn * Units) \div td)]

\* A library pose brought to fixed point (what lerp returns at t = 0 or 1).
ScalePose(pose) ==
  [b \in DOMAIN pose |-> [ch \in DOMAIN pose[b] |-> pose[b][ch] * Units]]

\* ----------------------------------------------------- Action (Action.ts)
\* An action is [name, duration, keyframes]; a keyframe is
\* [time |-> k (the normalized time k / TDen), pose |-> name, easing |-> name],
\* easing "" standing for an absent easing.  poseLibrary is a function from
\* pose names to poses.
libraryHas(library, name) == name \in DOMAIN library

\* toKf.easing ?? 'power2.inOut'
EasingOf(kf) == IF kf.easing = "" THEN "power2.inOut" ELSE kf.easing

\* gsap's eases at progress n / d, in fixed point (power1 is quadratic,
\* power2 cubic, "none" linear).
Ease(name, n, d) ==
  LET q == (n * UnitsRoot) \div d
      r == UnitsRoot - q
  IN  CASE name = "none" -> q * UnitsRoot * UnitsRoot
        [] name = "power1.in" -> q * q * UnitsRoot
        [] name = "power1.out" -> Units - r * r * UnitsRoot
        [] name = "power1.inOut" ->
             IF 2 * q < UnitsRoot THEN 2 * q * q * UnitsRoot
             ELSE Units - 2 * r * r * UnitsRoot
        [] name = "power2.in" -> q * q * q
        [] name = "power2.out" -> Units - r * r * r
        [] OTHER ->
             IF 2 * q < UnitsRoot THEN 4 * q * q * q ELSE Units - 4 * r * r * r

getAffectedBones(action, poseLibrary) ==
  UNION {DOMAIN poseLibrary[action.keyframes[i].pose] :
           i \in {j \in 1..Len(action.keyframes) :
                    action.keyframes[j].pose \in DOMAIN poseLibrary}}

TweenChannels == {"rotation", "x", "y"}

TweenOf_FromEasing(action, boneName, poseLibrary, i) ==
  LET fromKf == action.keyframes[i]
      toKf == action.keyframes[i + 1]
  IN  IF ~libraryHas(poseLibrary, fromKf.pose) \/ ~libraryHas(poseLibrary, toKf.pose)
      THEN [skip |-> TRUE]
      ELSE LET fromTransform == getBoneTransform(poseLibrary[fromKf.pose], boneName)
               toTransform == getBoneTransform(poseLibrary[toKf.pose], boneName)
           IN  [skip |-> FALSE,
                start |-> fromKf.time * action.duration,
                dur |-> (toKf.time - fromKf.time) * action.duration,
                from |-> [ch \in TweenChannels |-> Get(fromTransform, ch, 0)],
                to |-> [ch \in TweenChannels |-> Get(toTransform, ch, 0)],
                ease |-> EasingOf(fromKf)]

\* The tween createTimeline schedules for a bone and the keyframe pair
\* (i, i + 1): times in units of 1 / TDen second; "skip" when a pose is missing.
TweenOf(action, boneName, poseLibrary, i) ==
  LET fromKf == action.keyframes[i]
      toKf == action.keyframes[i + 1]
  IN  IF ~libraryHas(poseLibrary, fromKf.pose) \/ ~libraryHas(poseLibrary, toKf.pose)
      THEN [skip |-> TRUE]
      ELSE LET fromTransform == getBoneTransform(poseLibrary[fromKf.pose], boneName)
               toTransform == getBoneTransform(poseLibrary[toKf.pose], boneName)
           IN  [skip |-> FALSE,
                start |-> fromKf.time * action.duration,
                dur |-> (toKf.time - fromKf.time) * action.duration,
                from |-> [ch \in TweenChannels |-> Get(fromTransform, ch, 0)],
                to |-> [ch \in TweenChannels |-> Get(toTransform, ch, 0)],
                ease |-> EasingOf(toKf)]

\* Action.createTimeline: for every affected bone of the skeleton, its tweens
\* in the order they are added.
createTimeline(action, skeletonBones, poseLibrary) ==
  LET affected == getAffectedBones(action, poseLibrary) \cap skeletonBones
      all(b) == [i \in 1..(Len(action.keyframes) - 1) |->
                   TweenOf(action, b, poseLibrary, i)]
      keep(tw) == ~tw.skip
  IN  [b \in affected |-> SelectSeq(all(b), keep)]

\* What one tween holds in its target at local time lt of the timeline.
TweenTime(tw, lt) == Clamp(lt - tw.start, 0, tw.dur)

TweenValue(tw, ch, lt) ==
  LET e == IF tw.dur = 0 THEN Units ELSE Ease(tw.ease, TweenTime(tw, lt), tw.dur)
  IN  tw.from[ch] * Units + ((tw.to[ch] - tw.from[ch]) * e)

TweenEnd(tw) == tw.start + tw.dur

SetMax(S) == IF S = {} THEN 0 ELSE CHOOSE m \in S : \A x \in S : m >= x

\* gsap: a timeline lasts until its last tween ends.
TimelineDuration(tweens) ==
  SetMax(UNION {{TweenEnd(tweens[b][i]) : i \in DOMAIN tweens[b]} : b \in DOMAIN tweens})

\* gsap renders a timeline's tweens in order when the playhead moves forward
\* and in reverse order when it moves backward; a tween whose own time does
\* not change is not rendered again, a tween the playhead has not reached is
\* not rendered at all.  started/pl: whether the timeline was rendered before,
\* and its local time then; nl: its new local time.  The result is the index
\* of the tween whose onUpdate runs last for the bone, 0 when none runs.
TweenReached(tw, started, pl) == started /\ tw.start <= pl

TweenChanges(tw, started, pl, nl) ==
  IF TweenReached(tw, started, pl)
  THEN TweenTime(tw, nl) # TweenTime(tw, pl)
  ELSE nl >= tw.start

LastWriter(tws, started, pl, nl) ==
  LET changed == {i \in DOMAIN tws : TweenChanges(tws[i], started, pl, nl)}
      forward == ~started \/ nl >= pl
  IN  IF changed = {} THEN 0
      ELSE IF forward THEN CHOOSE i \in changed : \A j \in changed : i >= j
      ELSE CHOOSE i \in changed : \A j \in changed : i <= j

\* The values (relative to bind, fixed point) a timeline's render writes to a
\* bone: [rotation, x, y] of the last tween to run (one must run).
RenderBone(tws, started, pl, nl) ==
  LET w == LastWriter(tws, started, pl, nl)
  IN  [ch \in TweenChannels |-> TweenValue(tws[w], ch, nl)]

\* Action.getPoseAtTime(t) for t = tn / TDen.  The result is
\* [kind |-> "pose", pose |-> ...] (values in fixed point), [kind |-> "null"],
\* [kind |-> "nan"] when the local t is 0 / 0, or [kind |-> "throws"] when the
\* keyframe list is empty (kf.pose of undefined).
getPoseAtTime(action, tn, poseLibrary) ==
  LET kfs == action.keyframes
      brackets == {i \in 1..(Len(kfs) - 1) : tn >= kfs[i].time /\ tn <= kfs[i + 1].time}
  IN  IF brackets = {}
      THEN IF Len(kfs) = 0 THEN [kind |-> "throws"]
           ELSE LET kf == IF tn <= 0 THEN kfs[1] ELSE kfs[Len(kfs)]
                IN  IF ~libraryHas(poseLibrary, kf.pose) THEN [kind |-> "null"]
                    ELSE [kind |-> "pose", pose |-> ScalePose(poseLibrary[kf.pose])]
      ELSE LET i == CHOOSE k \in brackets : \A j \in brackets : k <= j
               fromKf == kfs[i]
               toKf == kfs[i + 1]
           IN  IF ~libraryHas(poseLibrary, fromKf.pose)
                  \/ ~libraryHas(poseLibrary, toKf.pose) THEN [kind |-> "null"]
               ELSE IF toKf.time = fromKf.time THEN [kind |-> "nan"]
               ELSE [kind |-> "pose",
                     pose |-> lerp(poseLibrary[fromKf.pose], poseLibrary[toKf.pose],
                                   tn - fromKf.time,
                                   toKf.time - fromKf.time)]

\* --------------------------------------------- Skeleton (Skeleton.ts, Bone.ts)
\* The rig is the spine / torso / upperArm-left chain of createHumanoid and
\* the thigh-left branch.
RigBones == {"spine", "torso", "upperArm-left", "thigh-left"}

\* new Transform(data.bindTransform): absent channels take (0, 0, 0, 1, 1).
BindData(boneName) ==
  CASE boneName = "spine" -> [rotation |-> -90]
    [] boneName = "torso" -> [rotation |-> 0]
    [] boneName = "thigh-left" -> [x |-> 0, y |-> -15, rotation |-> 180]
    [] OTHER -> [x |-> -20, y |-> 10, rotation |-> 90]

\* parentName, "" for a root bone
Parent(boneName) ==
  CASE boneName = "torso" -> "spine"
    [] boneName = "upperArm-left" -> "torso"
    [] boneName = "thigh-left" -> "spine"
    [] OTHER -> ""

bindTransform(boneName) ==
  [ch \in Channels |-> Get(BindData(boneName), ch, NeutralDefault(ch)) * Units]

\* Skeleton.resetToBind: every localTransform.copyFrom(bindTransform).
resetToBind == [b \in RigBones |-> bindTransform(b)]

\* Math.cos / Math.sin of a rotation in fixed-point degrees; exact for the
\* whole quarter turns that the world transforms are computed with.
Cos(rotation) ==
  LET q == (rotation \div (90 * Units)) % 4
  IN  CASE q = 0 -> 1 [] q = 2 -> -1 [] OTHER -> 0

Sin(rotation) ==
  LET q == (rotation \div (90 * Units)) % 4
  IN  CASE q = 1 -> 1 [] q = 3 -> -1 [] OTHER -> 0

RECURSIVE updateWorldTransform_LocalParent(_, _)
updateWorldTransform_LocalParent(local, boneName) ==
  LET lt == local[boneName]
  IN  IF Parent(boneName) = ""
      THEN [x |-> lt.x, y |-> lt.y, rotation |-> lt.rotation]
      ELSE LET parent == updateWorldTransform_LocalParent(local, Parent(boneName))
               cos == Cos(local[Parent(boneName)].rotation)
               sin == Sin(local[Parent(boneName)].rotation)
           IN  [x |-> parent.x + (lt.x * cos - lt.y * sin),
                y |-> parent.y + (lt.x * sin + lt.y * cos),
                rotation |-> parent.rotation + lt.rotation]

\* Bone.updateWorldTransform: [x, y, rotation] for worldX, worldY, worldRotation
RECURSIVE updateWorldTransform(_, _)
updateWorldTransform(local, boneName) ==
  LET lt == local[boneName]
  IN  IF Parent(boneName) = ""
      THEN [x |-> lt.x, y |-> lt.y, rotation |-> lt.rotation]
      ELSE LET parent == updateWorldTransform(local, Parent(boneName))
               cos == Cos(parent.rotation)
               sin == Sin(parent.rotation)
           IN  [x |-> parent.x + (lt.x * cos - lt.y * sin),
                y |-> parent.y + (lt.x * sin + lt.y * cos),
                rotation |-> parent.rotation + lt.rotation]

\* Skeleton.updateTransforms: every bone's world transform, from the roots down
updateTransforms(local) == [b \in DOMAIN local |-> updateWorldTransform(local, b)]

\* Bone.setRotation(angle): relative to bind
setRotation(local, boneName, angle) ==
  [local EXCEPT ![boneName].rotation = bindTransform(boneName).rotation + angle * Units]

\* The tween's onUpdate: setRotation(target.rotation), local x / y = bind + target.
WriteTween(skel, boneName, vals) ==
  [skel EXCEPT ![boneName] =
     [ch \in Channels |->
        IF ch \in TweenChannels THEN bindTransform(boneName)[ch] + vals[ch]
        ELSE @[ch]]]

applyTo_FromBind(pose, skel) ==
  [b \in DOMAIN skel |->
     IF b \notin DOMAIN pose THEN skel[b]
     ELSE [ch \in Channels |->
             IF ~Has(pose[b], ch) THEN bindTransform(b)[ch]
             ELSE IF ch \in TweenChannels
                  THEN bindTransform(b)[ch] + pose[b][ch]
                  ELSE pose[b][ch]]]

\* Pose.applyTo(skeleton), for a pose in fixed point: only the channels
\* present, only the bones found; rotation, x and y are relative to bind.
applyTo(pose, skel) ==
  [b \in DOMAIN skel |->
     IF b \notin DOMAIN pose THEN skel[b]
     ELSE [ch \in Channels |->
             IF ~Has(pose[b], ch) THEN skel[b][ch]
             ELSE IF ch \in TweenChannels
                  THEN bindTransform(b)[ch] + pose[b][ch]
                  ELSE pose[b][ch]]]

\* ------------------------------------------------------------- libraries
\* Pose data of the default pose library; actions on the model's time grid.
ModelPoses ==
  "idle" :> EmptyPose
  @@ "guard" :> ("upperArm-left" :> [rotation |-> -60]
                 @@ "forearm-left" :> [rotation |-> -90])
  @@ "punch_extend_left" :> ("upperArm-left" :> [rotation |-> -90]
                             @@ "forearm-left" :> [rotation |-> 0]
                             @@ "torso" :> [rotation |-> 10])
  @@ "dodge_left" :> ("spine" :> [x |-> -20] @@ "torso" :> [rotation |-> 20])

Kf(t, pose, easing) == [time |-> t, pose |-> pose, easing |-> easing]

ModelActions ==
  "jab" :> [name |-> "jab", duration |-> 1,
            keyframes |-> <<Kf(0, "guard", "power2.in"),
                            Kf(TDen \div 2, "punch_extend_left", "power2.out"),
                            Kf(TDen, "guard", "power2.inOut")>>]
  @@ "dodge_left" :> [name |-> "dodge_left", duration |-> 2,
                      keyframes |-> <<Kf(0, "guard", "power2.in"),
                                      Kf(1, "dodge_left", "power2.out"),
                                      Kf(TDen, "guard", "power2.inOut")>>]

\* ------------------------------------------------------------------ state
Figures == {"fighter_a", "fighter_b"}
Sequences == {"s1", "s2"}

VARIABLES
  beats,            \* Sequence.beats: per sequence, the list of beats
  seqFigures,       \* Sequence.figures: per sequence, the names it maps to a Figure
  masterTimeline,   \* Sequence.masterTimeline: a master's id, 0 for null
  masters,          \* the master timelines that are not killed, by id:
                    \* [seq, time, playing, calls, fired, run]
  timelines,        \* the action timelines that are not killed, by id
  skeleton,         \* Figure.skeleton: per figure, each bone's localTransform
  currentTimeline,  \* Figure.currentTimeline: an action timeline's id, 0 for null
  currentAction,    \* Figure.currentAction: an action name, "" for null
  lastWriter,       \* per figure: the timeline whose onUpdate wrote the skeleton
                    \* last, 0 after a write by resetToBind or applyTo
  last,             \* the operation that ran last: [op, on, arg, scrub, lazy,
                    \* name]; scrub says that the sequence was built and only
                    \* sought since, lazy that the operation found no master
                    \* timeline and built one itself, name is the action or
                    \* pose name a Figure was called with
  ops,              \* the number of operations run so far
  preview,          \* an Action under preview: [action, t, result], result being
                    \* what getPoseAtTime(t / TDen) returned
  blend,            \* two poses and what was computed from them last:
                    \* [a, b, op, t, result]
  state,            \* the MCP server's State: [figures, sequences] and the
                    \* last call on it [op, threw, out]
  libraries,        \* the action library of every Sequence and of every Figure,
                    \* by name: [seq, fig]
  load,             \* a Skeleton under construction and use, one loop
                    \* iteration or one call of its code per step (see NewLoad)
  rig               \* a Skeleton of its own: each bone's localTransform and
                    \* world transform, the operation that ran last on it
                    \* (op, on, angle, pose), the number of bones whose
                    \* localTransform it changed (moved) and, per bone, by how
                    \* much its
                    \* rotation was turned since the world transforms were
                    \* computed (pending)

vars == <<beats, seqFigures, masterTimeline, masters, timelines, skeleton,
          currentTimeline, currentAction, lastWriter, last, ops, preview,
          blend, rig, load, libraries, state>>

\* ------------------------------------------------------- MCP server state
\* The figure and sequence names the tools are called with, and the figure
\* lists a sequence is created with (a name may repeat).
StateFigureNames == {"hero", "villain"}
StateSequenceNames == {"fight", "rematch"}
Facings == {"left", "right"}
FigureLists ==
  {<<>>} \cup {<<a>> : a \in StateFigureNames}
         \cup {<<a, b>> : a \in StateFigureNames, b \in StateFigureNames}

\* What Map.get returns for a missing key, and what export_sequence has
\* produced when it was not the last call.
UndefinedFigure == [name |-> "undefined", facing |-> "undefined"]
NoExport == [error |-> FALSE, sequence |-> "", figures |-> <<>>]

\* new State(): no figures, no sequences
NewState ==
  [figures |-> [n \in {} |-> UndefinedFigure],
   sequences |-> [n \in {} |-> <<>>],
   op |-> "new", threw |-> FALSE, out |-> NoExport]

\* State.getFigure
getFigure(st, name) ==
  IF name \in DOMAIN st.figures THEN st.figures[name] ELSE UndefinedFigure

\* State.createFigure: throws when the name is taken
createFigure(st, name, facing) ==
  IF name \in DOMAIN st.figures
  THEN [st EXCEPT !.op = "createFigure", !.threw = TRUE, !.out = NoExport]
  ELSE [st EXCEPT !.figures = (name :> [name |-> name, facing |-> facing]) @@ @,
                  !.op = "createFigure", !.threw = FALSE, !.out = NoExport]

\* State.deleteFigure
deleteFigure(st, name) ==
  [st EXCEPT !.figures = [n \in DOMAIN @ \ {name} |-> @[n]],
             !.op = "deleteFigure", !.threw = FALSE, !.out = NoExport]

\* State.clearFigures
clearFigures(st) ==
  [st EXCEPT !.figures = NewState.figures,
             !.op = "clearFigures", !.threw = FALSE, !.out = NoExport]

\* State.createSequence: throws when the name is taken or a figure is missing
createSequence(st, name, figures) ==
  IF \/ name \in DOMAIN st.sequences
     \/ \E i \in DOMAIN figures : figures[i] \notin DOMAIN st.figures
  THEN [st EXCEPT !.op = "createSequence", !.threw = TRUE, !.out = NoExport]
  ELSE [st EXCEPT !.sequences = (name :> figures) @@ @,
                  !.op = "createSequence", !.threw = FALSE, !.out = NoExport]

\* State.deleteSequence
deleteSequence(st, name) ==
  [st EXCEPT !.sequences = [n \in DOMAIN @ \ {name} |-> @[n]],
             !.op = "deleteSequence", !.threw = FALSE, !.out = NoExport]

\* State.clearSequences
clearSequences(st) ==
  [st EXCEPT !.sequences = NewState.sequences,
             !.op = "clearSequences", !.threw = FALSE, !.out = NoExport]

\* State.clear
clear(st) ==
  [st EXCEPT !.figures = NewState.figures, !.sequences = NewState.sequences,
             !.op = "clear", !.threw = FALSE, !.out = NoExport]

\* The export_sequence tool: an error for an unknown sequence, else the
\* sequence with the figure data getFigure gives for each of its figures.
export_sequence(st, name) ==
  IF name \notin DOMAIN st.sequences
  THEN [st EXCEPT !.op = "export_sequence", !.threw = FALSE,
                  !.out = [error |-> TRUE, sequence |-> name, figures |-> <<>>]]
  ELSE [st EXCEPT !.op = "export_sequence", !.threw = FALSE,
                  !.out = [error |-> FALSE, sequence |-> name,
                           figures |-> [i \in DOMAIN st.sequences[name] |->
                                          getFigure(st, st.sequences[name][i])]]]

NoAction == ""
Root == 0       \* parent of a timeline that no live master renders

\* A beat is [time, actor, action, ord]; ord is the beat's rank in insertion
\* order among the beats of its sequence (the identity of the Beat object).
NoBeat == [time |-> -1, actor |-> "", action |-> "", ord |-> 0]

\* defaultActionLibrary / defaultPoseLibrary as the sequences and figures see them
actionLibrary == ModelActions
poseLibrary == ModelPoses

\* The action libraries there are.  An ActionLibrary starts with the default
\* actions, and add() replaces an action or adds one: the default library, one
\* whose jab was replaced by a jab of 2 s, and one with a further action, a
\* feint whose last keyframe is at half its duration.
ActionLibraries ==
  "default" :> actionLibrary
  @@ "slow" :> (("jab" :> [ModelActions["jab"] EXCEPT !.duration = 2]) @@ actionLibrary)
  @@ "more" :> (actionLibrary
                @@ "feint" :> [name |-> "feint", duration |-> 1,
                               keyframes |-> <<Kf(0, "guard", "power2.in"),
                                               Kf(TDen \div 2, "punch_extend_left",
                                                  "power2.out")>>])

\* Sequence.actionLibrary and Figure.actionLibrary, defaultActionLibrary until
\* setActionLibrary
DefaultLibraries ==
  [seq |-> [s \in Sequences |-> "default"], fig |-> [f \in Figures |-> "default"]]

SequenceActionLibrary(s) == ActionLibraries[libraries.seq[s]]
FigureActionLibrary(f) == ActionLibraries[libraries.fig[f]]

RECURSIVE SmallestFree(_, _)
SmallestFree(used, i) == IF i \in used THEN SmallestFree(used, i + 1) ELSE i

\* The figures' part of the state, threaded through Sequence.build's loop.
World == [tl |-> timelines, sk |-> skeleton, ct |-> currentTimeline,
          ca |-> currentAction, lw |-> lastWriter]

Remove(f, k) == [x \in DOMAIN f \ {k} |-> f[x]]

\* gsap kill(): the timeline is detached from its parent and renders no more.
Kill(tls, id) == Remove(tls, id)

FigureStopW_NoReset(w, f) ==
  [w EXCEPT !.tl = IF w.ct[f] # 0 THEN Kill(w.tl, w.ct[f]) ELSE w.tl,
            !.ct[f] = 0,
            !.ca[f] = NoAction]

FigureStopW_KeepsTimeline(w, f) ==
  [w EXCEPT !.ct[f] = 0,
            !.ca[f] = NoAction,
            !.sk[f] = resetToBind,
            !.lw[f] = 0]

\* Figure.stop
FigureStopW(w, f) ==
  [w EXCEPT !.tl = IF w.ct[f] # 0 THEN Kill(w.tl, w.ct[f]) ELSE w.tl,
            !.ct[f] = 0,
            !.ca[f] = NoAction,
            !.sk[f] = resetToBind,
            !.lw[f] = 0]

FigurePerformW_StopsFirst(w, f, actionName) ==
  LET w1 == FigureStopW(w, f)
      id == SmallestFree(DOMAIN w1.tl, 1)
      t == [fig |-> f, action |-> actionName, lib |-> libraries.fig[f],
            parent |-> Root, at |-> 0, started |-> FALSE, time |-> 0,
            beat |-> NoBeat]
  IN  IF ~libraryHas(FigureActionLibrary(f), actionName)
      THEN [w |-> w1, id |-> 0]
      ELSE [w |-> [w1 EXCEPT !.tl = (id :> t) @@ w1.tl,
                             !.ct[f] = id,
                             !.ca[f] = actionName],
            id |-> id]

\* Figure.perform: [w |-> the state after it, id |-> the timeline returned, 0 for null]
FigurePerformW(w, f, actionName) ==
  IF ~libraryHas(FigureActionLibrary(f), actionName)
  THEN [w |-> w, id |-> 0]
  ELSE LET w1 == FigureStopW(w, f)
           id == SmallestFree(DOMAIN w1.tl, 1)
           t == [fig |-> f, action |-> actionName, lib |-> libraries.fig[f],
                 parent |-> Root, at |-> 0, started |-> FALSE, time |-> 0,
                 beat |-> NoBeat]
       IN  [w |-> [w1 EXCEPT !.tl = (id :> t) @@ w1.tl,
                             !.ct[f] = id,
                             !.ca[f] = actionName],
            id |-> id]

\* The tweens of an action timeline: createTimeline of the action the
\* figure's library held when perform looked it up.
TweensOf(t) == createTimeline(ActionLibraries[t.lib][t.action], RigBones, poseLibrary)

\* One child of a master rendered at the master's time T.
RenderChild(w, id, T) ==
  LET t == w.tl[id]
      tws == TweensOf(t)
      nl == Clamp(T - t.at, 0, TimelineDuration(tws))
      wrote == {b \in DOMAIN tws : LastWriter(tws[b], t.started, t.time, nl) # 0}
      sk1 == [b \in RigBones |->
                IF b \in wrote
                THEN WriteTween(w.sk[t.fig], b,
                                RenderBone(tws[b], t.started, t.time, nl))[b]
                ELSE w.sk[t.fig][b]]
  IN  IF ~t.started /\ T < t.at THEN w
      ELSE [w EXCEPT !.tl[id] = [t EXCEPT !.started = TRUE, !.time = nl],
                     !.sk[t.fig] = sk1,
                     !.lw[t.fig] = IF wrote # {} THEN id ELSE @]

ChildrenOf(tls, m) == {id \in DOMAIN tls : tls[id].parent = m}

\* The children in the order of their start times.
RECURSIVE InOrder(_, _)
InOrder(tls, ids) ==
  IF ids = {} THEN <<>>
  ELSE LET first == CHOOSE i \in ids :
                      \A j \in ids : tls[i].at < tls[j].at
                                     \/ (tls[i].at = tls[j].at /\ i <= j)
       IN  <<first>> \o InOrder(tls, ids \ {first})

Reverse(s) == [i \in 1..Len(s) |-> s[Len(s) + 1 - i]]

RECURSIVE RenderAll(_, _, _)
RenderAll(w, ids, T) ==
  IF ids = <<>> THEN w ELSE RenderAll(RenderChild(w, Head(ids), T), Tail(ids), T)

\* gsap: a master lasts until its last child or callback ends.
MasterDuration(tls, ms, m) ==
  SetMax({tls[id].at + TimelineDuration(TweensOf(tls[id])) : id \in ChildrenOf(tls, m)}
         \cup {ms[m].calls[i].at : i \in DOMAIN ms[m].calls})

\* The master's playhead moved from ms[m].time to T: nothing is rendered when
\* the time does not change.
RenderMaster(w, ms, m, T) ==
  LET order == InOrder(w.tl, ChildrenOf(w.tl, m))
  IN  IF T = ms[m].time THEN w
      ELSE IF T > ms[m].time THEN RenderAll(w, order, T)
      ELSE RenderAll(w, Reverse(order), T)

\* ------------------------------------------------- Sequence (Sequence.ts)
\* Array.prototype.sort with (a, b) => a.time - b.time: a stable sort.
RECURSIVE InsertByTime(_, _)
InsertByTime(b, sorted) ==
  IF sorted = <<>> THEN <<b>>
  ELSE IF b.time <= Head(sorted).time THEN <<b>> \o sorted
  ELSE <<Head(sorted)>> \o InsertByTime(b, Tail(sorted))

RECURSIVE SortByTime(_)
SortByTime(bs) ==
  IF bs = <<>> THEN <<>> ELSE InsertByTime(Head(bs), SortByTime(Tail(bs)))

addBeat_Unsorted(bs, b) == Append(bs, b)

\* Sequence.addBeat: push, then sort
addBeat(bs, b) == SortByTime(Append(bs, b))

\* Array.prototype.splice(index, 1): a negative index counts from the end,
\* an index past the end removes nothing.
SpliceStart(len, index) ==
  IF index < 0 THEN Max2(len + index, 0) ELSE Min2(index, len)

removeBeat(bs, index) ==
  LET k == SpliceStart(Len(bs), index) + 1
  IN  IF k > Len(bs) THEN bs
      ELSE [i \in 1..(Len(bs) - 1) |->
              LET b == IF i < k THEN bs[i] ELSE bs[i + 1]
              IN  [b EXCEPT !.ord = IF @ > bs[k].ord THEN @ - 1 ELSE @]]

\* Sequence.getDuration, for the library durationOf (name -> duration)
RECURSIVE MaxEndLoop(_, _, _)
MaxEndLoop(bs, durationOf, maxEnd) ==
  IF bs = <<>> THEN maxEnd
  ELSE LET beat == Head(bs)
           next == IF beat.action \in DOMAIN durationOf
                   THEN Max2(maxEnd, beat.time + durationOf[beat.action])
                   ELSE maxEnd
       IN  MaxEndLoop(Tail(bs), durationOf, next)

getDuration_LongestAction(bs, durationOf) ==
  IF Len(bs) = 0 THEN 0
  ELSE MaxEndLoop([i \in DOMAIN bs |-> [bs[i] EXCEPT !.time = 0]], durationOf, 0)

getDuration_LastBeat(bs, durationOf) ==
  IF Len(bs) = 0 THEN 0 ELSE MaxEndLoop(<<bs[Len(bs)]>>, durationOf, 0)

getDuration(bs, durationOf) ==
  IF Len(bs) = 0 THEN 0 ELSE MaxEndLoop(bs, durationOf, 0)

\* Sequence.createSampleFight: its beats and the default library's durations,
\* in hundredths of a second.
SampleFightBeats ==
  <<[time |-> 0, actor |-> "fighter_a", action |-> "jab", ord |-> 1],
    [time |-> 10, actor |-> "fighter_b", action |-> "block_high", ord |-> 2],
    [time |-> 40, actor |-> "fighter_a", action |-> "hook", ord |-> 3],
    [time |-> 55, actor |-> "fighter_b", action |-> "stagger_back", ord |-> 4],
    [time |-> 100, actor |-> "fighter_a", action |-> "cross", ord |-> 5],
    [time |-> 110, actor |-> "fighter_b", action |-> "dodge_left", ord |-> 6]>>

DefaultDurations ==
  "jab" :> 30 @@ "cross" :> 40 @@ "hook" :> 45 @@ "block_high" :> 20
  @@ "stagger_back" :> 40 @@ "dodge_left" :> 30

KillMaster_Keeps(ms, tls, m) == [ms |-> ms, tl |-> tls]

\* masterTimeline.kill(): the master renders no more, so neither does what
\* it holds.
KillMaster(ms, tls, m) ==
  [ms |-> Remove(ms, m),
   tl |-> [id \in DOMAIN tls |->
             IF tls[id].parent = m THEN [tls[id] EXCEPT !.parent = Root]
             ELSE tls[id]]]

BuildBeat_NotifiesFirst(st, s, m, beat) ==
  LET st1 == [st EXCEPT !.calls = Append(@, [at |-> beat.time, beat |-> beat])]
  IN  IF beat.actor \notin seqFigures[s] THEN st1
      ELSE IF ~libraryHas(SequenceActionLibrary(s), beat.action) THEN st1
      ELSE LET r == FigurePerformW(st.w, beat.actor, beat.action)
           IN  IF r.id = 0 THEN st1
               ELSE [w |-> [r.w EXCEPT !.tl[r.id] =
                              [@ EXCEPT !.parent = m, !.at = beat.time, !.beat = beat]],
                     calls |-> st1.calls]

\* One iteration of build's loop over the beats, for the master m of s.
BuildBeat(st, s, m, beat) ==
  IF beat.actor \notin seqFigures[s] THEN st
  ELSE IF ~libraryHas(SequenceActionLibrary(s), beat.action) THEN st
  ELSE LET r == FigurePerformW(st.w, beat.actor, beat.action)
       IN  IF r.id = 0 THEN st
           ELSE [w |-> [r.w EXCEPT !.tl[r.id] =
                          [@ EXCEPT !.parent = m, !.at = beat.time, !.beat = beat]],
                 calls |-> Append(st.calls, [at |-> beat.time, beat |-> beat])]

RECURSIVE BuildLoop(_, _, _, _)
BuildLoop(st, s, m, bs) ==
  IF bs = <<>> THEN st ELSE BuildLoop(BuildBeat(st, s, m, Head(bs)), s, m, Tail(bs))

BuildResult_Appends(ms0, w0, s) ==
  LET old == IF masterTimeline[s] # 0 THEN ms0[masterTimeline[s]].calls ELSE <<>>
      killed == IF masterTimeline[s] # 0
                THEN KillMaster(ms0, w0.tl, masterTimeline[s])
                ELSE [ms |-> ms0, tl |-> w0.tl]
      m == SmallestFree(DOMAIN killed.ms, 1)
      st == BuildLoop([w |-> [w0 EXCEPT !.tl = killed.tl], calls |-> old],
                      s, m, beats[s])
  IN  [m |-> m,
       ms |-> (m :> [seq |-> s, time |-> 0, playing |-> FALSE, calls |-> st.calls,
                     fired |-> <<>>, run |-> 0])
              @@ killed.ms,
       w |-> st.w]

\* Sequence.build: [m, ms, w] after it
BuildResult(ms0, w0, s) ==
  LET killed == IF masterTimeline[s] # 0
                THEN KillMaster(ms0, w0.tl, masterTimeline[s])
                ELSE [ms |-> ms0, tl |-> w0.tl]
      m == SmallestFree(DOMAIN killed.ms, 1)
      st == BuildLoop([w |-> [w0 EXCEPT !.tl = killed.tl], calls |-> <<>>],
                      s, m, beats[s])
  IN  [m |-> m,
       ms |-> (m :> [seq |-> s, time |-> 0, playing |-> FALSE, calls |-> st.calls,
                     fired |-> <<>>, run |-> 0])
              @@ killed.ms,
       w |-> st.w]

SetWorld(w) ==
  /\ timelines' = w.tl
  /\ skeleton' = w.sk
  /\ currentTimeline' = w.ct
  /\ currentAction' = w.ca
  /\ lastWriter' = w.lw

\* Every operation is recorded; histories are explored up to MaxOps operations.
SetLastNamed(op, on, arg, scrub, lazy, name) ==
  /\ ops < MaxOps
  /\ ops' = ops + 1
  /\ last' = [op |-> op, on |-> on, arg |-> arg, scrub |-> scrub, lazy |-> lazy,
              name |-> name]
  /\ UNCHANGED <<preview, blend, rig, load, libraries, state>>

SetLastLazy(op, on, arg, scrub, lazy) == SetLastNamed(op, on, arg, scrub, lazy, "")

SetLast(op, on, arg, scrub) == SetLastLazy(op, on, arg, scrub, FALSE)

\* What a build replaces: 0 no master, 1 the master of the build that ran just
\* before, 2 a master with other notifications, 3 a master with the same ones.
BuildKind(s, calls) ==
  IF masterTimeline[s] = 0 THEN 0
  ELSE IF last.op = "build" /\ last.on = s THEN 1
  ELSE IF masters[masterTimeline[s]].calls # calls THEN 2
  ELSE 3

\* ------------------------------ a Skeleton built from a definition
\* (Skeleton.ts, Bone.ts, Joint.ts), one loop iteration or one call per step.
\* The definition: three joints, and three bones in data.bones' order whose
\* parentName is any of ParentNames ("" for none).  "ankle" is not a joint of
\* the definition, "missing_bone" is not a bone of it.
MaxDepth == 4    \* calls of updateWorldTransform the call stack holds

DefJoints == <<"hip", "neck", "knee">>
DefBones == <<"spine", "thigh", "shin">>
ParentNames == {"", "spine", "thigh", "shin", "missing_bone"}

JointData(jointName) ==
  CASE jointName = "hip" -> [x |-> 0, y |-> 0]
    [] jointName = "neck" -> [x |-> 0, y |-> -5]
    [] OTHER -> [x |-> 3, y |-> 4]

\* [jointStart, jointEnd, bindTransform] of a bone of the definition
BoneData(boneName) ==
  CASE boneName = "spine" ->
         [jointStart |-> "hip", jointEnd |-> "neck",
          bindTransform |-> [rotation |-> 90, x |-> 0, y |-> 0]]
    [] boneName = "thigh" ->
         [jointStart |-> "hip", jointEnd |-> "knee",
          bindTransform |-> [rotation |-> 90, x |-> 10, y |-> 0]]
    [] OTHER ->
         [jointStart |-> "knee", jointEnd |-> "ankle",
          bindTransform |-> [rotation |-> 0, x |-> 0, y |-> 5]]

SeqRange(q) == {q[i] : i \in DOMAIN q}

\* new Skeleton(data) before loadFromData's first iteration.  data is the
\* bones' parentName; joints maps a joint's name to its (worldX, worldY);
\* bones lists the bones created, in the order of the bones map; parent is ""
\* for null; stack holds the running calls of updateWorldTransform, each with
\* the index of the child it visits next; root is the index of
\* updateTransforms' loop; visited lists the bones whose world transform the
\* running (or last) updateTransforms computed, in order; op is the
\* operation that returned last, caller the one that runs.
NewLoad(data) ==
  [data |-> data, pc |-> "joints", i |-> 1,
   joints |-> [j \in {} |-> [x |-> 0, y |-> 0]],
   bones |-> <<>>,
   jointStart |-> [b \in SeqRange(DefBones) |-> ""],
   jointEnd |-> [b \in SeqRange(DefBones) |-> ""],
   parent |-> [b \in SeqRange(DefBones) |-> ""],
   children |-> [b \in SeqRange(DefBones) |-> <<>>],
   rootBones |-> <<>>,
   local |-> [b \in SeqRange(DefBones) |-> BoneData(b).bindTransform],
   world |-> [b \in SeqRange(DefBones) |-> [rotation |-> 0, x |-> 0, y |-> 0]],
   stack |-> <<>>, root |-> 1, visited |-> <<>>,
   op |-> "none", caller |-> "new", stale |-> FALSE]

NoLoad == NewLoad([b \in SeqRange(DefBones) |-> ""])

\* Map.get(name) ?? null, "" for null
Linked(name, names) == IF name \in names THEN name ELSE ""

\* Bone.addChild
AddChild(l, parentName, boneName) ==
  [l EXCEPT !.parent[boneName] = parentName,
            !.children[parentName] = Append(@, boneName)]

LoadHierarchy_AllRoots(l, boneName) ==
  LET parentName == l.data[boneName]
      l1 == [l EXCEPT !.rootBones = Append(@, boneName)]
  IN  IF parentName # "" /\ parentName \in SeqRange(l.bones)
      THEN AddChild(l1, parentName, boneName)
      ELSE l1

\* One iteration of loadFromData's "Build hierarchy" loop
LoadHierarchy(l, boneName) ==
  LET parentName == l.data[boneName]
  IN  IF parentName # ""
      THEN IF parentName \in SeqRange(l.bones)
           THEN AddChild(l, parentName, boneName)
           ELSE l
      ELSE [l EXCEPT !.rootBones = Append(@, boneName)]

\* Skeleton.loadFromData, one iteration of one of its three loops
LoadFromDataStep(l) ==
  CASE l.pc = "joints" ->
         IF l.i <= Len(DefJoints)
         THEN [l EXCEPT !.joints = (DefJoints[l.i] :> JointData(DefJoints[l.i])) @@ @,
                        !.i = @ + 1]
         ELSE [l EXCEPT !.pc = "bones", !.i = 1]
    [] l.pc = "bones" ->
         IF l.i <= Len(DefBones)
         THEN LET b == DefBones[l.i]
              IN  [l EXCEPT !.bones = Append(@, b),
                            !.jointStart[b] = Linked(BoneData(b).jointStart, DOMAIN l.joints),
                            !.jointEnd[b] = Linked(BoneData(b).jointEnd, DOMAIN l.joints),
                            !.i = @ + 1]
         ELSE [l EXCEPT !.pc = "hierarchy", !.i = 1]
    [] OTHER ->
         IF l.i <= Len(l.bones)
         THEN [LoadHierarchy(l, l.bones[l.i]) EXCEPT !.i = @ + 1]
         ELSE [l EXCEPT !.pc = "idle", !.op = "new", !.caller = ""]

\* Joint.updateWorldPosition(parentX, parentY, parentRotation)
updateWorldPosition(jointName, parentX, parentY, parentRotation) ==
  LET cos == Cos(parentRotation * Units)
      sin == Sin(parentRotation * Units)
      bind == JointData(jointName)
  IN  [x |-> parentX + (bind.x * cos - bind.y * sin),
       y |-> parentY + (bind.x * sin + bind.y * cos)]

\* Bone.updateWorldTransform up to its loop over the children
BoneWorld(l, boneName) ==
  LET lt == l.local[boneName]
      parent == l.world[l.parent[boneName]]
      cos == Cos(parent.rotation * Units)
      sin == Sin(parent.rotation * Units)
  IN  IF l.parent[boneName] # ""
      THEN [rotation |-> parent.rotation + lt.rotation,
            x |-> parent.x + (lt.x * cos - lt.y * sin),
            y |-> parent.y + (lt.x * sin + lt.y * cos)]
      ELSE lt

\* A call of bone.updateWorldTransform(): the call stack overflows
\* (RangeError) at MaxDepth calls
EnterBone(l, boneName) ==
  IF Len(l.stack) >= MaxDepth THEN [l EXCEPT !.pc = "overflow"]
  ELSE [l EXCEPT !.world[boneName] = BoneWorld(l, boneName),
                 !.visited = Append(@, boneName),
                 !.stack = Append(@, [bone |-> boneName, k |-> 1])]

\* Skeleton.updateTransforms with the calls of Bone.updateWorldTransform it
\* makes: the next call, or the return of the call that has visited all
\* its children, or the return of updateTransforms itself
UpdateTransformsStep(l) ==
  IF l.stack = <<>>
  THEN IF l.root <= Len(l.rootBones)
       THEN EnterBone([l EXCEPT !.root = @ + 1], l.rootBones[l.root])
       ELSE [l EXCEPT !.pc = "idle", !.op = l.caller, !.caller = "", !.stale = FALSE]
  ELSE LET top == l.stack[Len(l.stack)]
       IN  IF top.k <= Len(l.children[top.bone])
           THEN EnterBone([l EXCEPT !.stack[Len(l.stack)].k = @ + 1],
                          l.children[top.bone][top.k])
           ELSE [l EXCEPT !.stack = SubSeq(@, 1, Len(@) - 1)]

\* Skeleton.updateTransforms is called
CallUpdateTransforms(l, caller) ==
  [l EXCEPT !.pc = "update", !.root = 1, !.stack = <<>>, !.visited = <<>>,
            !.caller = caller]

\* Skeleton.resetToBind, one iteration of its loop, then updateTransforms()
ResetToBindStep(l) ==
  IF l.i <= Len(l.bones)
  THEN [l EXCEPT !.local[l.bones[l.i]] = BoneData(l.bones[l.i]).bindTransform,
                 !.i = @ + 1]
  ELSE CallUpdateTransforms(l, "resetToBind")

\* --------------------------------------------------------------- actions
BeatTimes == {0, 2}
BeatActions == {"jab", "missing_action"}
PoseNames == {"guard", "missing_pose"}
SeekTimes == {1, 3, 7}
SeekProgresses == {TDen \div 2}
TickStep == 2

NoPreview == [action |-> ModelActions["jab"], t |-> 0, result |-> [kind |-> "none"]]
NoBlend == [a |-> EmptyPose, b |-> EmptyPose, op |-> "none", t |-> 0, result |-> EmptyPose]

\* Skeleton.createHumanoid(): bind pose, world transforms computed
NewRig ==
  [local |-> resetToBind, world |-> updateTransforms(resetToBind),
   op |-> "new", on |-> "", angle |-> 0, pose |-> "", moved |-> 0,
   pending |-> [b \in RigBones |-> 0]]

Init ==
  /\ beats = [s \in Sequences |-> <<>>]
  /\ seqFigures = [s \in Sequences |-> {}]
  /\ masterTimeline = [s \in Sequences |-> 0]
  /\ masters = [m \in {} |-> 0]
  /\ timelines = [id \in {} |-> 0]
  /\ skeleton = [f \in Figures |-> resetToBind]
  /\ currentTimeline = [f \in Figures |-> 0]
  /\ currentAction = [f \in Figures |-> NoAction]
  /\ lastWriter = [f \in Figures |-> 0]
  /\ last = [op |-> "new", on |-> "", arg |-> 0, scrub |-> FALSE, lazy |-> FALSE,
             name |-> ""]
  /\ ops = 0
  /\ preview = NoPreview
  /\ blend = NoBlend
  /\ rig = NewRig
  /\ load = NoLoad
  /\ libraries = DefaultLibraries
  /\ state = NewState

figureVars == <<timelines, skeleton, currentTimeline, currentAction, lastWriter>>

\* Sequence.addFigure(figure)
AddFigure(s, f) ==
  /\ f \notin seqFigures[s]
  /\ seqFigures' = [seqFigures EXCEPT ![s] = @ \cup {f}]
  /\ SetLast("addFigure", s, 0, FALSE)
  /\ UNCHANGED <<beats, masterTimeline, masters, figureVars>>

\* Sequence.addBeat(beat) / Sequence.createBeat(data)
AddBeat(s, time, actor, action) ==
  /\ beats' = [beats EXCEPT ![s] =
                 addBeat(@, [time |-> time, actor |-> actor, action |-> action,
                             ord |-> Len(@) + 1])]
  /\ SetLast("addBeat", s, 0, FALSE)
  /\ UNCHANGED <<seqFigures, masterTimeline, masters, figureVars>>

\* Sequence.removeBeat(index)
RemoveBeat(s, index) ==
  /\ beats[s] # <<>>
  /\ beats' = [beats EXCEPT ![s] = removeBeat(@, index)]
  /\ SetLast("removeBeat", s, 0, FALSE)
  /\ UNCHANGED <<seqFigures, masterTimeline, masters, figureVars>>

\* Sequence.fromJSON(data, figures): a new Sequence (no master timeline yet)
\* that takes the figures it finds and addBeat()s the beats in the data's order.
RECURSIVE AddAll(_, _)
AddAll(bs, data) ==
  IF data = <<>> THEN bs
  ELSE AddAll(addBeat(bs, [Head(data) EXCEPT !.ord = Len(bs) + 1]), Tail(data))

FromJSON(s, figureNames, data) ==
  /\ masterTimeline[s] = 0
  /\ seqFigures' = [seqFigures EXCEPT ![s] = figureNames \cap Figures]
  /\ beats' = [beats EXCEPT ![s] = AddAll(<<>>, data)]
  /\ SetLast("fromJSON", s, 0, FALSE)
  /\ UNCHANGED <<masterTimeline, masters, figureVars>>

\* Sequence.clearBeats()
ClearBeats(s) ==
  /\ beats[s] # <<>>
  /\ beats' = [beats EXCEPT ![s] = <<>>]
  /\ SetLast("clearBeats", s, 0, FALSE)
  /\ UNCHANGED <<seqFigures, masterTimeline, masters, figureVars>>

\* Sequence.build()
Build(s) ==
  LET r == BuildResult(masters, World, s)
  IN  /\ masters' = r.ms
      /\ masterTimeline' = [masterTimeline EXCEPT ![s] = r.m]
      /\ SetWorld(r.w)
      /\ SetLast("build", s, BuildKind(s, r.ms[r.m].calls), TRUE)
      /\ UNCHANGED <<beats, seqFigures>>

\* Sequence.play(): build(), then masterTimeline.play(0)
Play(s) ==
  LET r == BuildResult(masters, World, s)
  IN  /\ masters' = [r.ms EXCEPT ![r.m].playing = TRUE, ![r.m].run = 1]
      /\ masterTimeline' = [masterTimeline EXCEPT ![s] = r.m]
      /\ SetWorld(r.w)
      /\ SetLast("play", s, BuildKind(s, r.ms[r.m].calls), FALSE)
      /\ UNCHANGED <<beats, seqFigures>>

\* Sequence.pause() (the record's arg tells whether the master was playing)
Pause(s) ==
  /\ masters' = IF masterTimeline[s] = 0 THEN masters
                ELSE [masters EXCEPT ![masterTimeline[s]].playing = FALSE]
  /\ SetLast("pause", s,
             IF masterTimeline[s] # 0 /\ masters[masterTimeline[s]].playing
             THEN 1 ELSE 0,
             FALSE)
  /\ UNCHANGED <<beats, seqFigures, masterTimeline, figureVars>>

\* Sequence.resume()
Resume(s) ==
  /\ masters' = IF masterTimeline[s] = 0 THEN masters
                ELSE [masters EXCEPT ![masterTimeline[s]].playing = TRUE]
  /\ SetLast("resume", s, 0, FALSE)
  /\ UNCHANGED <<beats, seqFigures, masterTimeline, figureVars>>

\* masterTimeline.seek(t): the playhead goes to t, within the master's length
SeekResult(ms, w, m, t) ==
  LET T == Clamp(t, 0, MasterDuration(w.tl, ms, m))
  IN  [ms |-> [ms EXCEPT ![m].time = T, ![m].run = 0],
       w |-> RenderMaster(w, ms, m, T)]

RECURSIVE StopFigures(_, _)
StopFigures(w, fs) ==
  IF fs = {} THEN w
  ELSE LET f == CHOOSE x \in fs : TRUE
       IN  StopFigures(FigureStopW(w, f), fs \ {f})

Stop_KeepsPlayhead(s) ==
  LET m == masterTimeline[s]
  IN  /\ masters' = IF m = 0 THEN masters ELSE [masters EXCEPT ![m].playing = FALSE]
      /\ SetWorld(StopFigures(World, seqFigures[s]))
      /\ SetLast("stop", s, 0, FALSE)
      /\ UNCHANGED <<beats, seqFigures, masterTimeline>>

\* Sequence.stop(): pause, seek(0), then figure.stop() for every figure
\* (the record's arg tells whether the seek wrote to a skeleton)
Stop(s) ==
  LET m == masterTimeline[s]
      paused == IF m = 0 THEN masters ELSE [masters EXCEPT ![m].playing = FALSE]
      r == IF m = 0 THEN [ms |-> masters, w |-> World]
           ELSE SeekResult(paused, World, m, 0)
  IN  /\ masters' = r.ms
      /\ SetWorld(StopFigures(r.w, seqFigures[s]))
      /\ SetLast("stop", s, IF r.w.sk # skeleton THEN 1 ELSE 0, FALSE)
      /\ UNCHANGED <<beats, seqFigures, masterTimeline>>

BuildIfNone_Always(s) == BuildResult(masters, World, s)

\* if (!this.masterTimeline) { this.build(); }
BuildIfNone(s) ==
  IF masterTimeline[s] = 0 THEN BuildResult(masters, World, s)
  ELSE [m |-> masterTimeline[s], ms |-> masters, w |-> World]

\* Sequence.seek(time): build() first when there is no master timeline
Seek(s, t) ==
  LET b == BuildIfNone(s)
      r == SeekResult(b.ms, b.w, b.m, t)
  IN  /\ masters' = r.ms
      /\ masterTimeline' = [masterTimeline EXCEPT ![s] = b.m]
      /\ SetWorld(r.w)
      /\ SetLastLazy("seek", s, t,
                     masterTimeline[s] = 0 \/ (last.on = s /\ last.scrub),
                     masterTimeline[s] = 0)
      /\ UNCHANGED <<beats, seqFigures>>

\* masterTimeline.progress(p), p = pn / TDen: the playhead goes to p times the
\* master's length (rounded down to the time grid)
ProgressTime(ms, w, m, pn) ==
  (Clamp(pn, 0, TDen) * MasterDuration(w.tl, ms, m)) \div TDen

\* Sequence.seekProgress(progress): build() first when there is no master
\* timeline
SeekProgress(s, pn) ==
  LET b == BuildIfNone(s)
      r == SeekResult(b.ms, b.w, b.m, ProgressTime(b.ms, b.w, b.m, pn))
  IN  /\ masters' = r.ms
      /\ masterTimeline' = [masterTimeline EXCEPT ![s] = b.m]
      /\ SetWorld(r.w)
      /\ SetLastLazy("seekProgress", s, pn,
                     masterTimeline[s] = 0 \/ (last.on = s /\ last.scrub),
                     masterTimeline[s] = 0)
      /\ UNCHANGED <<beats, seqFigures>>

\* The notifications the engine delivers when the playhead of master moves
\* forward to T: those it passes or reaches (those at 0 with the first move),
\* by time, and in the order of the call() calls at one time.
RECURSIVE CallsInOrder(_, _)
CallsInOrder(calls, due) ==
  IF due = {} THEN <<>>
  ELSE LET first == CHOOSE i \in due :
                      \A j \in due : calls[i].at < calls[j].at
                                     \/ (calls[i].at = calls[j].at /\ i <= j)
       IN  <<calls[first]>> \o CallsInOrder(calls, due \ {first})

Delivered(master, T) ==
  CallsInOrder(master.calls,
               {i \in DOMAIN master.calls :
                  /\ master.calls[i].at <= T
                  /\ \/ master.calls[i].at > master.time
                     \/ (master.time = 0 /\ master.fired = <<>>)})

\* The engine's tick on a playing master: the playhead advances, the children
\* it has reached are rendered, the notifications due are delivered (fired),
\* and the master stops at its end.  run is 1 after play(), 2 once the engine
\* has ticked since, 0 when the playhead was moved by a seek.
Tick(m) ==
  /\ m \in DOMAIN masters
  /\ masters[m].playing
  /\ LET dur == MasterDuration(timelines, masters, m)
         T == Min2(masters[m].time + TickStep, dur)
     IN  /\ masters' = [masters EXCEPT ![m].time = T, ![m].playing = T < dur,
                                       ![m].fired = @ \o Delivered(masters[m], T),
                                       ![m].run = IF @ = 0 THEN 0 ELSE 2]
         /\ SetWorld(RenderMaster(World, masters, m, T))
         /\ SetLast("tick", masters[m].seq, 0, FALSE)
  /\ UNCHANGED <<beats, seqFigures, masterTimeline>>

\* Figure.perform(actionName), called directly
FigurePerform(f, actionName) ==
  /\ SetWorld(FigurePerformW(World, f, actionName).w)
  /\ SetLastNamed("perform", f, 0, FALSE, FALSE, actionName)
  /\ UNCHANGED <<beats, seqFigures, masterTimeline, masters>>

\* Figure.stop(), called directly
FigureStop(f) ==
  /\ SetWorld(FigureStopW(World, f))
  /\ SetLast("figureStop", f, 0, FALSE)
  /\ UNCHANGED <<beats, seqFigures, masterTimeline, masters>>

\* Figure.setPose(poseName)
FigureSetPose(f, poseName) ==
  /\ IF ~libraryHas(poseLibrary, poseName)
     THEN UNCHANGED <<skeleton, lastWriter>>
     ELSE /\ skeleton' = [skeleton EXCEPT
                           ![f] = applyTo(ScalePose(poseLibrary[poseName]), @)]
          /\ lastWriter' = [lastWriter EXCEPT ![f] = 0]
  /\ SetLastNamed("setPose", f, 0, FALSE, FALSE, poseName)
  /\ UNCHANGED <<beats, seqFigures, masterTimeline, masters, timelines,
                 currentTimeline, currentAction>>

\* The choreography of one sequence and two figures.
Edited == {"s1"}

Next ==
  \/ \E s \in Edited, f \in Figures : AddFigure(s, f)
  \/ \E s \in Edited, t \in BeatTimes, f \in Figures, a \in BeatActions :
       Len(beats[s]) < MaxBeats /\ AddBeat(s, t, f, a)
  \/ \E s \in Edited, i \in -1..MaxBeats : RemoveBeat(s, i)
  \/ \E s \in Edited : ClearBeats(s)
  \/ \E s \in Edited : Build(s)
  \/ \E s \in Edited : Play(s)
  \/ \E s \in Edited : Pause(s)
  \/ \E s \in Edited : Resume(s)
  \/ \E s \in Edited : Stop(s)
  \/ \E s \in Edited, t \in SeekTimes : Seek(s, t)
  \/ \E s \in Edited, pn \in SeekProgresses : SeekProgress(s, pn)
  \/ \E m \in DOMAIN masters : Tick(m)
  \/ \E f \in Figures, a \in BeatActions : FigurePerform(f, a)
  \/ \E f \in Figures : FigureStop(f)
  \/ \E f \in Figures, p \in PoseNames : FigureSetPose(f, p)

Spec == Init /\ [][Next]_vars

\* Two sequences that share both figures, each holding one beat: the
\* interleavings of build / play / stop and of the figures' own perform / stop.
SharedBeatLists ==
  {<<[time |-> t, actor |-> f, action |-> "jab", ord |-> 1]>> :
     t \in BeatTimes, f \in Figures}

InitShared ==
  /\ beats \in [Sequences -> SharedBeatLists]
  /\ seqFigures = [s \in Sequences |-> Figures]
  /\ masterTimeline = [s \in Sequences |-> 0]
  /\ masters = [m \in {} |-> 0]
  /\ timelines = [id \in {} |-> 0]
  /\ skeleton = [f \in Figures |-> resetToBind]
  /\ currentTimeline = [f \in Figures |-> 0]
  /\ currentAction = [f \in Figures |-> NoAction]
  /\ lastWriter = [f \in Figures |-> 0]
  /\ last = [op |-> "new", on |-> "", arg |-> 0, scrub |-> FALSE, lazy |-> FALSE,
             name |-> ""]
  /\ ops = 0
  /\ preview = NoPreview
  /\ blend = NoBlend
  /\ rig = NewRig
  /\ load = NoLoad
  /\ libraries = DefaultLibraries
  /\ state = NewState

NextShared ==
  \/ \E s \in Sequences : Build(s)
  \/ \E s \in Sequences : Play(s)
  \/ \E s \in Sequences : Stop(s)
  \/ \E m \in DOMAIN masters : Tick(m)
  \/ \E f \in Figures : FigurePerform(f, "jab")
  \/ \E f \in Figures : FigureStop(f)

SpecShared == InitShared /\ [][NextShared]_vars

\* The beat list alone: addBeat / createBeat, removeBeat, clearBeats, fromJSON.
ListTimes == {0, 1, 2}
ListActions == {"jab", "dodge_left", "missing_action"}

RECURSIVE SeqsUpTo(_, _)
SeqsUpTo(S, n) ==
  IF n = 0 THEN {<<>>}
  ELSE SeqsUpTo(S, n - 1) \cup {Append(q, x) : q \in SeqsUpTo(S, n - 1), x \in S}

JsonBeats ==
  SeqsUpTo({[time |-> t, actor |-> "fighter_a", action |-> "jab", ord |-> 0] :
              t \in ListTimes}, MaxListBeats)

NextBeats ==
  \/ \E s \in Edited, t \in ListTimes, f \in Figures, a \in ListActions :
       Len(beats[s]) < MaxListBeats /\ AddBeat(s, t, f, a)
  \/ \E s \in Edited, i \in -1..MaxListBeats : RemoveBeat(s, i)
  \/ \E s \in Edited : ClearBeats(s)
  \/ \E s \in Edited, data \in JsonBeats : FromJSON(s, {"fighter_a", "nobody"}, data)

SpecBeats == Init /\ [][NextBeats]_vars

\* One sequence that holds both figures and any list of up to MaxListBeats
\* beats (added in any order, some naming no figure or no action of the
\* library), played to its end.
PlayActors == Figures \cup {"nobody"}
PlayBeats ==
  SeqsUpTo({[time |-> t, actor |-> f, action |-> a, ord |-> 0] :
              t \in BeatTimes, f \in PlayActors, a \in BeatActions}, MaxListBeats)

InitPlay ==
  /\ beats \in {[s \in Sequences |-> IF s \in Edited THEN AddAll(<<>>, data) ELSE <<>>] :
                 data \in PlayBeats}
  /\ seqFigures = [s \in Sequences |-> IF s \in Edited THEN Figures ELSE {}]
  /\ masterTimeline = [s \in Sequences |-> 0]
  /\ masters = [m \in {} |-> 0]
  /\ timelines = [id \in {} |-> 0]
  /\ skeleton = [f \in Figures |-> resetToBind]
  /\ currentTimeline = [f \in Figures |-> 0]
  /\ currentAction = [f \in Figures |-> NoAction]
  /\ lastWriter = [f \in Figures |-> 0]
  /\ last = [op |-> "new", on |-> "", arg |-> 0, scrub |-> FALSE, lazy |-> FALSE,
             name |-> ""]
  /\ ops = 0
  /\ preview = NoPreview
  /\ blend = NoBlend
  /\ rig = NewRig
  /\ load = NoLoad
  /\ libraries = DefaultLibraries
  /\ state = NewState

NextPlay ==
  \/ \E s \in Edited : masterTimeline[s] = 0 /\ Play(s)
  \/ \E s \in Edited : Pause(s)
  \/ \E s \in Edited : Resume(s)
  \/ \E m \in DOMAIN masters : Tick(m)

SpecPlay == InitPlay /\ [][NextPlay]_vars

\* One sequence that holds both figures, with any list of up to MaxBeats beats
\* and any action library in the Sequence and in each Figure (as
\* setActionLibrary leaves them), built.
LibraryNames == DOMAIN ActionLibraries
DurationActions == {"jab", "dodge_left", "feint", "missing_action"}
DurationBeats ==
  SeqsUpTo({[time |-> t, actor |-> f, action |-> a, ord |-> 0] :
              t \in BeatTimes, f \in PlayActors, a \in DurationActions}, MaxBeats)

InitDuration ==
  /\ beats \in {[s \in Sequences |-> IF s \in Edited THEN AddAll(<<>>, data) ELSE <<>>] :
                 data \in DurationBeats}
  /\ seqFigures = [s \in Sequences |-> IF s \in Edited THEN Figures ELSE {}]
  /\ masterTimeline = [s \in Sequences |-> 0]
  /\ masters = [m \in {} |-> 0]
  /\ timelines = [id \in {} |-> 0]
  /\ skeleton = [f \in Figures |-> resetToBind]
  /\ currentTimeline = [f \in Figures |-> 0]
  /\ currentAction = [f \in Figures |-> NoAction]
  /\ lastWriter = [f \in Figures |-> 0]
  /\ last = [op |-> "new", on |-> "", arg |-> 0, scrub |-> FALSE, lazy |-> FALSE,
             name |-> ""]
  /\ ops = 0
  /\ preview = NoPreview
  /\ blend = NoBlend
  /\ rig = NewRig
  /\ load = NoLoad
  /\ libraries \in [seq : [Sequences -> LibraryNames], fig : [Figures -> LibraryNames]]
  /\ \A s \in Sequences \ Edited : libraries.seq[s] = "default"
  /\ state = NewState

NextDuration ==
  \E s \in Edited : Build(s)

SpecDuration == InitDuration /\ [][NextDuration]_vars

\* One action, previewed with getPoseAtTime and driven live: the timeline
\* createTimeline builds for it, on a figure in bind pose, sought to a time.
KeyframeTimes == {<<0, TDen>>, <<1, TDen>>, <<0, TDen - 1>>} \cup {<<0, k, TDen>> : k \in 1..(TDen - 1)}
KeyframePoses == {"guard", "punch_extend_left", "dodge_left"}
KeyframeEasings == {"", "none"}
Durations == {1, 2}

ActionSpace ==
  UNION {{[name |-> "previewed", duration |-> d,
           keyframes |-> [i \in DOMAIN ts |->
                            Kf(ts[i], ps[i], IF i = 1 THEN "" ELSE es[i])]] :
            d \in Durations,
            ps \in [DOMAIN ts -> KeyframePoses],
            es \in [DOMAIN ts -> KeyframeEasings]} : ts \in KeyframeTimes}

InitAction ==
  /\ beats = [s \in Sequences |-> <<>>]
  /\ seqFigures = [s \in Sequences |-> {}]
  /\ masterTimeline = [s \in Sequences |-> 0]
  /\ masters = [m \in {} |-> 0]
  /\ timelines = [id \in {} |-> 0]
  /\ skeleton = [f \in Figures |-> resetToBind]
  /\ currentTimeline = [f \in Figures |-> 0]
  /\ currentAction = [f \in Figures |-> NoAction]
  /\ lastWriter = [f \in Figures |-> 0]
  /\ last = [op |-> "new", on |-> "", arg |-> 0, scrub |-> FALSE, lazy |-> FALSE,
             name |-> ""]
  /\ ops = 0
  /\ preview \in {[action |-> a, t |-> 0, result |-> [kind |-> "none"]] : a \in ActionSpace}
  /\ blend = NoBlend
  /\ rig = NewRig
  /\ load = NoLoad
  /\ libraries = DefaultLibraries
  /\ state = NewState

\* Action.getPoseAtTime(t / TDen) of the action under preview
GetPoseAtTime(t) ==
  /\ preview' = [preview EXCEPT !.t = t,
                                !.result = getPoseAtTime(preview.action, t, poseLibrary)]
  /\ UNCHANGED <<beats, seqFigures, masterTimeline, masters, figureVars, last, ops,
                 blend, rig, load, libraries, state>>

\* The skeleton when the action's timeline, created on a figure in bind pose,
\* is driven to the local time nl.
LiveAt(action, nl) ==
  LET tws == createTimeline(action, RigBones, poseLibrary)
      at == Clamp(nl, 0, TimelineDuration(tws))
  IN  [b \in RigBones |->
         IF b \in DOMAIN tws /\ LastWriter(tws[b], FALSE, 0, at) # 0
         THEN WriteTween(resetToBind, b, RenderBone(tws[b], FALSE, 0, at))[b]
         ELSE resetToBind[b]]

\* createTimeline(figure.skeleton, ...) for the action under preview, then
\* seek(t / TDen * duration) on it
LiveSeek(f, t) ==
  /\ skeleton' = [skeleton EXCEPT ![f] = LiveAt(preview.action, t * preview.action.duration)]
  /\ last' = [op |-> "liveSeek", on |-> f, arg |-> t, scrub |-> FALSE, lazy |-> FALSE,
              name |-> ""]
  /\ UNCHANGED <<beats, seqFigures, masterTimeline, masters, timelines,
                 currentTimeline, currentAction, lastWriter, ops, preview, blend,
                 rig, load, libraries, state>>

NextAction ==
  \/ \E t \in 0..TDen : GetPoseAtTime(t)
  \/ \E t \in 0..TDen : LiveSeek("fighter_a", t)

SpecAction == InitAction /\ [][NextAction]_vars

\* Any action with keyframes ascending by time, compiled for the rig:
\* keyframes that share a time, poses the library lacks, poses naming a bone
\* the rig lacks (forearm-left).
CompileTimes == {<<0, TDen>>, <<0, 2, TDen>>, <<1, 1, 3>>, <<0, 1, 2, TDen>>}
CompilePoses == {"guard", "punch_extend_left", "missing_pose"}

CompileSpace ==
  UNION {{[name |-> "compiled", duration |-> d,
           keyframes |-> [i \in DOMAIN ts |-> Kf(ts[i], ps[i], es[i])]] :
            d \in Durations,
            ps \in [DOMAIN ts -> CompilePoses],
            es \in [DOMAIN ts -> KeyframeEasings]} : ts \in CompileTimes}

InitCompile ==
  /\ beats = [s \in Sequences |-> <<>>]
  /\ seqFigures = [s \in Sequences |-> {}]
  /\ masterTimeline = [s \in Sequences |-> 0]
  /\ masters = [m \in {} |-> 0]
  /\ timelines = [id \in {} |-> 0]
  /\ skeleton = [f \in Figures |-> resetToBind]
  /\ currentTimeline = [f \in Figures |-> 0]
  /\ currentAction = [f \in Figures |-> NoAction]
  /\ lastWriter = [f \in Figures |-> 0]
  /\ last = [op |-> "new", on |-> "", arg |-> 0, scrub |-> FALSE, lazy |-> FALSE,
             name |-> ""]
  /\ ops = 0
  /\ preview \in {[action |-> a, t |-> 0, result |-> [kind |-> "none"]] : a \in CompileSpace}
  /\ blend = NoBlend
  /\ rig = NewRig
  /\ load = NoLoad
  /\ libraries = DefaultLibraries
  /\ state = NewState

\* action.createTimeline(skeleton, poseLibrary): the result holds the tweens
\* scheduled, per bone, in the order of the to() calls
CreateTimeline ==
  /\ preview.result.kind = "none"
  /\ preview' = [preview EXCEPT
                   !.result = [kind |-> "timeline",
                               tweens |-> createTimeline(preview.action, RigBones,
                                                         poseLibrary)]]
  /\ UNCHANGED <<beats, seqFigures, masterTimeline, masters, figureVars, last, ops,
                 blend, rig, load, libraries, state>>

NextCompile == CreateTimeline

SpecCompile == InitCompile /\ [][NextCompile]_vars

\* Any action previewed at any time: keyframe lists that are empty, start
\* after 0, end before 1 or repeat a time, poses the library lacks, and
\* times before 0 and after 1.
PreviewTimes ==
  {<<>>, <<2>>, <<0, TDen>>, <<1, 3>>, <<2, 3>>, <<2, 2>>, <<1, 2, 3>>}
PreviewPoses == {"guard", "punch_extend_left", "missing_pose"}

PreviewSpace ==
  UNION {{[name |-> "previewed", duration |-> 1,
           keyframes |-> [i \in DOMAIN ts |-> Kf(ts[i], ps[i], "")]] :
            ps \in [DOMAIN ts -> PreviewPoses]} : ts \in PreviewTimes}

InitPreview ==
  /\ beats = [s \in Sequences |-> <<>>]
  /\ seqFigures = [s \in Sequences |-> {}]
  /\ masterTimeline = [s \in Sequences |-> 0]
  /\ masters = [m \in {} |-> 0]
  /\ timelines = [id \in {} |-> 0]
  /\ skeleton = [f \in Figures |-> resetToBind]
  /\ currentTimeline = [f \in Figures |-> 0]
  /\ currentAction = [f \in Figures |-> NoAction]
  /\ lastWriter = [f \in Figures |-> 0]
  /\ last = [op |-> "new", on |-> "", arg |-> 0, scrub |-> FALSE, lazy |-> FALSE,
             name |-> ""]
  /\ ops = 0
  /\ preview \in {[action |-> a, t |-> 0, result |-> [kind |-> "none"]] : a \in PreviewSpace}
  /\ blend = NoBlend
  /\ rig = NewRig
  /\ load = NoLoad
  /\ libraries = DefaultLibraries
  /\ state = NewState

NextPreview == \E t \in -1..(TDen + 1) : GetPoseAtTime(t)

SpecPreview == InitPreview /\ [][NextPreview]_vars

\* Two poses, interpolated and subtracted; the torso entries also as full
\* Transforms.
BlendRotations == {-170, 10, 170}
BlendDomains ==
  {{}, {"rotation"}, {"x"}, {"scaleY"}, {"rotation", "y", "scaleX"}, Channels}

BlendValues(ch) ==
  CASE ch = "rotation" -> BlendRotations
    [] ch \in {"scaleX", "scaleY"} -> {2}
    [] OTHER -> {5}

TransformSpace ==
  UNION {{tr \in [D -> BlendRotations \cup {2, 5}] :
            \A ch \in D : tr[ch] \in BlendValues(ch)} : D \in BlendDomains}

PoseSpace ==
  {EmptyPose, "spine" :> [rotation |-> 10]}
  \cup {"torso" :> tr : tr \in TransformSpace}
  \cup {"torso" :> tr @@ "spine" :> [y |-> 5] : tr \in TransformSpace}

InitPose ==
  /\ beats = [s \in Sequences |-> <<>>]
  /\ seqFigures = [s \in Sequences |-> {}]
  /\ masterTimeline = [s \in Sequences |-> 0]
  /\ masters = [m \in {} |-> 0]
  /\ timelines = [id \in {} |-> 0]
  /\ skeleton = [f \in Figures |-> resetToBind]
  /\ currentTimeline = [f \in Figures |-> 0]
  /\ currentAction = [f \in Figures |-> NoAction]
  /\ lastWriter = [f \in Figures |-> 0]
  /\ last = [op |-> "new", on |-> "", arg |-> 0, scrub |-> FALSE, lazy |-> FALSE,
             name |-> ""]
  /\ ops = 0
  /\ preview = NoPreview
  /\ blend \in {[NoBlend EXCEPT !.a = a, !.b = b] : a, b \in PoseSpace}
  /\ rig = NewRig
  /\ load = NoLoad
  /\ libraries = DefaultLibraries
  /\ state = NewState

BlendDone(op, t, result) ==
  /\ blend' = [blend EXCEPT !.op = op, !.t = t, !.result = result]
  /\ UNCHANGED <<beats, seqFigures, masterTimeline, masters, figureVars, last, ops,
                 preview, rig, load, libraries, state>>

\* a.lerp(b, tn / TDen)
PoseLerp(tn) == BlendDone("lerp", tn, lerp(blend.a, blend.b, tn, TDen))

\* Pose.difference(a, b)
PoseDifference == BlendDone("difference", 0, difference(blend.a, blend.b))

\* new Transform(a's torso entry).lerp(new Transform(b's torso entry), tn / TDen)
TorsoLerp(tn) ==
  BlendDone("transformLerp", tn,
            TransformLerp(Transform(getBoneTransform(blend.a, "torso")),
                          Transform(getBoneTransform(blend.b, "torso")), tn, TDen))

NextPose ==
  \/ \E tn \in 0..TDen : PoseLerp(tn)
  \/ PoseDifference
  \/ \E tn \in 0..TDen : TorsoLerp(tn)

SpecPose == InitPose /\ [][NextPose]_vars

\* One skeleton, posed and turned bone by bone.  Its rotations are whole
\* quarter turns.
RigAngles == {0, 90}
RigPoses ==
  "lean" :> ("torso" :> [rotation |-> 90, scaleX |-> 2]
             @@ "forearm-left" :> [rotation |-> 90])
  @@ "shift" :> ("spine" :> [x |-> -20]
                 @@ "upperArm-left" :> [y |-> 5, scaleY |-> 2])
RigTargets == {[rotation |-> 180, x |-> 5, y |-> 0]}

NoPending == [b \in RigBones |-> 0]

\* The skeleton after an operation, with the record of the operation.
RigDone(r, op, on, angle, pose) ==
  /\ rig' = [r EXCEPT !.op = op, !.on = on, !.angle = angle, !.pose = pose,
                      !.moved = Cardinality({b \in RigBones :
                                               r.local[b] # rig.local[b]})]
  /\ UNCHANGED <<beats, seqFigures, masterTimeline, masters, figureVars, last, ops,
                 preview, blend, load, libraries, state>>

\* bone.setRotation(angle): the world transforms are not recomputed
RigSetRotation(boneName, angle) ==
  LET local == setRotation(rig.local, boneName, angle)
  IN  RigDone([rig EXCEPT !.local = local,
                          !.pending[boneName] =
                            @ + local[boneName].rotation - rig.local[boneName].rotation],
              "setRotation", boneName, angle, "")

\* The bones whose rotation differs from the one the world transforms were
\* computed with.
Turned == {b \in RigBones : rig.pending[b] # 0}

\* skeleton.updateTransforms(); the record names the bone that was turned
\* since the last computation, and by how much, when it is the only one
RigUpdateTransforms ==
  LET one == Cardinality(Turned) = 1
      b == CHOOSE x \in Turned : TRUE
  IN  RigDone([rig EXCEPT !.world = updateTransforms(rig.local),
                          !.pending = NoPending],
              "updateTransforms", IF one THEN b ELSE "",
              IF one THEN rig.pending[b] \div Units ELSE 0, "")

\* pose.applyTo(skeleton), which ends with skeleton.updateTransforms()
RigApplyPose(poseName) ==
  LET local == applyTo(ScalePose(RigPoses[poseName]), rig.local)
  IN  RigDone([rig EXCEPT !.local = local, !.world = updateTransforms(local),
                          !.pending = NoPending],
              "applyTo", "", 0, poseName)

\* A tween's onUpdate on the bone, which ends with skeleton.updateTransforms()
RigTweenUpdate(boneName, target) ==
  LET local == WriteTween(rig.local, boneName,
                          [ch \in TweenChannels |-> target[ch] * Units])
  IN  RigDone([rig EXCEPT !.local = local, !.world = updateTransforms(local),
                          !.pending = NoPending],
              "onUpdate", boneName, 0, "")

SkeletonResetToBind_RotationOnly(r) ==
  LET local == [b \in RigBones |->
                  [r.local[b] EXCEPT !.rotation = bindTransform(b).rotation]]
  IN  [r EXCEPT !.local = local, !.world = updateTransforms(local)]

\* Skeleton.resetToBind(): every bone's resetToBind(), then updateTransforms()
SkeletonResetToBind(r) ==
  [r EXCEPT !.local = resetToBind, !.world = updateTransforms(resetToBind)]

RigResetToBind ==
  RigDone([SkeletonResetToBind(rig) EXCEPT !.pending = NoPending],
          "resetToBind", "", 0, "")

NextSkeleton ==
  \/ \E b \in RigBones, angle \in RigAngles : RigSetRotation(b, angle)
  \/ RigUpdateTransforms
  \/ \E p \in DOMAIN RigPoses : RigApplyPose(p)
  \/ \E b \in {"torso"}, target \in RigTargets : RigTweenUpdate(b, target)
  \/ RigResetToBind

SpecSkeleton == Init /\ [][NextSkeleton]_vars

\* A skeleton of any definition: constructed, then turned, updated and reset.
LoadAngles == {0, 90}
loadOthers == <<beats, seqFigures, masterTimeline, masters, figureVars, last, ops,
                preview, blend, rig, libraries, state>>

InitLoad ==
  /\ beats = [s \in Sequences |-> <<>>]
  /\ seqFigures = [s \in Sequences |-> {}]
  /\ masterTimeline = [s \in Sequences |-> 0]
  /\ masters = [m \in {} |-> 0]
  /\ timelines = [id \in {} |-> 0]
  /\ skeleton = [f \in Figures |-> resetToBind]
  /\ currentTimeline = [f \in Figures |-> 0]
  /\ currentAction = [f \in Figures |-> NoAction]
  /\ lastWriter = [f \in Figures |-> 0]
  /\ last = [op |-> "new", on |-> "", arg |-> 0, scrub |-> FALSE, lazy |-> FALSE,
             name |-> ""]
  /\ ops = 0
  /\ preview = NoPreview
  /\ blend = NoBlend
  /\ rig = NewRig
  /\ \E data \in [SeqRange(DefBones) -> ParentNames] : load = NewLoad(data)
  /\ libraries = DefaultLibraries
  /\ state = NewState

\* new Skeleton(data) runs on
LoadFromData ==
  /\ load.pc \in {"joints", "bones", "hierarchy"}
  /\ load' = LoadFromDataStep(load)
  /\ UNCHANGED loadOthers

\* skeleton.getBone(boneName).setRotation(angle)
LoadSetRotation(boneName, angle) ==
  /\ load.pc = "idle"
  /\ load' = [load EXCEPT !.local[boneName].rotation =
                            BoneData(boneName).bindTransform.rotation + angle,
                          !.op = "setRotation",
                          !.stale = @ \/ load.local[boneName].rotation
                                          # BoneData(boneName).bindTransform.rotation + angle]
  /\ UNCHANGED loadOthers

\* skeleton.updateTransforms() is called
LoadUpdateTransforms ==
  /\ load.pc = "idle"
  /\ load' = CallUpdateTransforms(load, "updateTransforms")
  /\ UNCHANGED loadOthers

\* skeleton.updateTransforms() runs on
LoadUpdateStep ==
  /\ load.pc = "update"
  /\ load' = UpdateTransformsStep(load)
  /\ UNCHANGED loadOthers

\* skeleton.resetToBind() is called
LoadResetToBind ==
  /\ load.pc = "idle"
  /\ load' = [load EXCEPT !.pc = "reset", !.i = 1, !.caller = "resetToBind"]
  /\ UNCHANGED loadOthers

\* skeleton.resetToBind() runs on
LoadResetStep ==
  /\ load.pc = "reset"
  /\ load' = ResetToBindStep(load)
  /\ UNCHANGED loadOthers

\* The code that is running takes its next step.
LoadRuns == LoadFromData \/ LoadUpdateStep \/ LoadResetStep

NextLoad ==
  \/ LoadFromData
  \/ \E b \in SeqRange(DefBones), angle \in LoadAngles : LoadSetRotation(b, angle)
  \/ LoadUpdateTransforms
  \/ LoadUpdateStep
  \/ LoadResetToBind
  \/ LoadResetStep

\* A call that has started keeps running: nothing but its own code stops it.
SpecLoad == InitLoad /\ [][NextLoad]_vars /\ WF_vars(LoadRuns)

\* The MCP server's State under any calls of its methods and of the
\* export_sequence tool.
stateOthers == <<beats, seqFigures, masterTimeline, masters, figureVars, last, ops,
                 preview, blend, rig, load, libraries>>

InitState ==
  /\ beats = [s \in Sequences |-> <<>>]
  /\ seqFigures = [s \in Sequences |-> {}]
  /\ masterTimeline = [s \in Sequences |-> 0]
  /\ masters = [m \in {} |-> 0]
  /\ timelines = [id \in {} |-> 0]
  /\ skeleton = [f \in Figures |-> resetToBind]
  /\ currentTimeline = [f \in Figures |-> 0]
  /\ currentAction = [f \in Figures |-> NoAction]
  /\ lastWriter = [f \in Figures |-> 0]
  /\ last = [op |-> "new", on |-> "", arg |-> 0, scrub |-> FALSE, lazy |-> FALSE,
             name |-> ""]
  /\ ops = 0
  /\ preview = NoPreview
  /\ blend = NoBlend
  /\ rig = NewRig
  /\ load = NoLoad
  /\ libraries = DefaultLibraries
  /\ state = NewState

StateCreateFigure(name, facing) ==
  state' = createFigure(state, name, facing) /\ UNCHANGED stateOthers

StateDeleteFigure(name) ==
  state' = deleteFigure(state, name) /\ UNCHANGED stateOthers

StateClearFigures ==
  state' = clearFigures(state) /\ UNCHANGED stateOthers

StateCreateSequence(name, figures) ==
  state' = createSequence(state, name, figures) /\ UNCHANGED stateOthers

StateDeleteSequence(name) ==
  state' = deleteSequence(state, name) /\ UNCHANGED stateOthers

StateClearSequences ==
  state' = clearSequences(state) /\ UNCHANGED stateOthers

StateClear ==
  state' = clear(state) /\ UNCHANGED stateOthers

ExportSequence(name) ==
  state' = export_sequence(state, name) /\ UNCHANGED stateOthers

NextState ==
  \/ \E name \in StateFigureNames, facing \in Facings : StateCreateFigure(name, facing)
  \/ \E name \in StateFigureNames : StateDeleteFigure(name)
  \/ StateClearFigures
  \/ \E name \in StateSequenceNames, figures \in FigureLists :
       StateCreateSequence(name, figures)
  \/ \E name \in StateSequenceNames : StateDeleteSequence(name)
  \/ StateClearSequences
  \/ StateClear
  \/ \E name \in StateSequenceNames : ExportSequence(name)

SpecState == InitState /\ [][NextState]_vars

\* ---------------------------------------------------------------- claims
\* A beat of s resolves when build finds its figure and its action.
Resolves(s, beat) ==
  /\ beat.actor \in seqFigures[s]
  /\ libraryHas(SequenceActionLibrary(s), beat.action)
  /\ libraryHas(FigureActionLibrary(beat.actor), beat.action)

\* The master of s holds the beat's live sub-timeline at beat.time.
Nested(s, beat) ==
  \E id \in DOMAIN timelines :
    /\ timelines[id].parent = masterTimeline[s]
    /\ timelines[id].beat = beat
    /\ timelines[id].at = beat.time
    /\ timelines[id].fig = beat.actor
    /\ timelines[id].action = beat.action

\* The master of s holds the beat's notification at beat.time.
Notified(s, beat) ==
  LET calls == masters[masterTimeline[s]].calls
  IN  \E i \in DOMAIN calls : calls[i].beat = beat /\ calls[i].at = beat.time

Built == last.op \in {"build", "play"}

\* C1: after build(), the master timeline holds, for every beat whose figure
\* and action both resolve, that beat's live sub-timeline at beat.time, also
\* when several beats name the same actor.
C1_BuildNestsEveryResolvingBeat ==
  Built =>
    \A i \in DOMAIN beats[last.on] :
      Resolves(last.on, beats[last.on][i]) => Nested(last.on, beats[last.on][i])

\* C2: every figure has at most one action timeline that is not killed, it is
\* the figure's current timeline, and the last write to the skeleton by a
\* timeline came from it (a killed timeline writes no more).
C2_OneLiveTimelinePerFigure ==
  \A f \in Figures :
    LET live == {id \in DOMAIN timelines : timelines[id].fig = f}
    IN  /\ Cardinality(live) <= 1
        /\ live \subseteq {currentTimeline[f]}
        /\ lastWriter[f] \in live \cup {0}

\* C2's case: s1's master scheduled a beat of a figure whose timeline was then
\* killed and replaced by the build of s2.
C2_SharedFigureRebuilt ==
  \E f \in Figures :
    /\ masterTimeline["s1"] # 0
    /\ masterTimeline["s2"] # 0
    /\ \E i \in DOMAIN masters[masterTimeline["s1"]].calls :
         masters[masterTimeline["s1"]].calls[i].beat.actor = f
    /\ currentTimeline[f] # 0
    /\ timelines[currentTimeline[f]].parent = masterTimeline["s2"]

\* C3: build() skips a beat whose figure or action does not resolve (no
\* sub-timeline, no notification) and schedules every other beat of the
\* sequence (its sub-timeline and its notification).
C3_BuildSkipsOnlyBadReferences ==
  Built =>
    \A i \in DOMAIN beats[last.on] :
      LET beat == beats[last.on][i]
      IN  IF Resolves(last.on, beat)
          THEN Nested(last.on, beat) /\ Notified(last.on, beat)
          ELSE ~Nested(last.on, beat) /\ ~Notified(last.on, beat)

Range(q) == {q[i] : i \in DOMAIN q}

\* The libraries getDuration is checked with: action name -> duration, in the
\* beats' time unit.
DurationLibraries ==
  {"jab" :> 4 @@ "dodge_left" :> 8,
   "jab" :> 2 @@ "dodge_left" :> 1,
   "dodge_left" :> 0,
   [a \in {} |-> 0]}

\* beat.time + duration of the beat's action, 0 for an action that does not resolve
BeatEnd(beat, durationOf) ==
  IF beat.action \in DOMAIN durationOf THEN beat.time + durationOf[beat.action] ELSE 0

\* C4: getDuration() is 0 without beats and otherwise the maximum over the
\* beats of beat.time + duration of the beat's action, an unresolved action
\* contributing 0; for the sample fight it is the largest beat end, 1.4 s.
C4_GetDurationIsMaxBeatEnd ==
  /\ \A s \in Sequences, durationOf \in DurationLibraries :
       getDuration(beats[s], durationOf) =
         IF beats[s] = <<>> THEN 0
         ELSE SetMax({BeatEnd(b, durationOf) : b \in Range(beats[s])})
  /\ getDuration(SampleFightBeats, DefaultDurations) = 140
  /\ getDuration(SampleFightBeats, DefaultDurations) =
       SetMax({BeatEnd(b, DefaultDurations) : b \in Range(SampleFightBeats)})

\* C4's case: three beats, one of an unknown action, where the longest beat
\* is not the last one.
C4_LongestBeatNotLast ==
  LET bs == beats["s1"]
  IN  /\ Len(bs) = 3
      /\ bs[1].action = "dodge_left"
      /\ bs[2].action = "missing_action"
      /\ bs[3].action = "jab"
      /\ bs[3].time = bs[1].time + 1

\* C5: the beat list is sorted ascending by time and beats of equal time are
\* in insertion order; it holds each remaining inserted beat once.
C5_BeatsStableSorted ==
  \A s \in Sequences :
    /\ \A i, j \in DOMAIN beats[s] :
         i < j => \/ beats[s][i].time < beats[s][j].time
                  \/ /\ beats[s][i].time = beats[s][j].time
                     /\ beats[s][i].ord < beats[s][j].ord
    /\ {beats[s][i].ord : i \in DOMAIN beats[s]} = 1..Len(beats[s])

\* C5's case: the beat inserted last was sorted to the front of two beats of
\* equal time.
C5_SortedWithTie ==
  LET bs == beats["s1"]
  IN  /\ last.op = "addBeat"
      /\ Len(bs) = 3
      /\ bs[1].ord = 3
      /\ bs[2].time = bs[3].time

\* C6: stop() leaves every figure of the sequence with every bone's local
\* transform equal to its bind transform and with no current action, whatever
\* the master's seek to 0 wrote before.
C6_StopLeavesBindPose ==
  last.op = "stop" =>
    \A f \in seqFigures[last.on] :
      /\ skeleton[f] = resetToBind
      /\ currentAction[f] = NoAction
      /\ currentTimeline[f] = 0

\* C6's case: a stop whose seek to 0 wrote to a skeleton.
C6_StopAfterSeekWrote ==
  last.op = "stop" /\ last.arg = 1 /\ seqFigures[last.on] # {}

\* The skeleton of a sub-timeline's figure when the sequence is built and
\* then sought once, to the master time T.
SoughtFromBuild(id, T) ==
  LET t == timelines[id]
      w0 == [World EXCEPT !.tl[id] = [t EXCEPT !.started = FALSE, !.time = 0],
                          !.sk[t.fig] = resetToBind]
  IN  IF T = 0 THEN resetToBind ELSE RenderChild(w0, id, T).sk[t.fig]

Content(s) ==
  LET m == masterTimeline[s]
  IN  [calls |-> masters[m].calls,
       time |-> masters[m].time,
       playing |-> masters[m].playing,
       children |-> {[timelines[id] EXCEPT !.parent = s] :
                       id \in ChildrenOf(timelines, m)}]

FigureState(f) ==
  [skeleton |-> skeleton[f],
   currentAction |-> currentAction[f],
   currentTimeline |->
     IF currentTimeline[f] = 0 THEN {}
     ELSE {[timelines[currentTimeline[f]] EXCEPT !.parent = (@ # Root)]},
   written |-> lastWriter[f] # 0]

BuiltState(s) == [content |-> Content(s), figures |-> [f \in Figures |-> FigureState(f)]]

\* C9: a build() that follows a build() of the same sequence leaves the same
\* master content (beats nested at the same offsets, the same notifications)
\* and the same figure states as the first build did.
C9_BuildTwiceIsBuildOnce ==
  [][(last.op = "build" /\ last'.op = "build" /\ last'.on = last.on /\ last'.arg = 1)
       => BuiltState(last.on)' = BuiltState(last.on)]_vars

\* C9's case: the second of two builds in a row, with a beat nested.
C9_BuiltTwice ==
  /\ last.op = "build"
  /\ last.arg = 1
  /\ ChildrenOf(timelines, masterTimeline[last.on]) # {}

\* C10: a sequence has at most one live master timeline, its current one,
\* and after build() or play() the master's notifications are the resolving
\* beats of the current beat list, in order, and its sub-timelines belong to
\* such beats.
C10_OneLiveMasterFromCurrentBeats ==
  /\ \A s \in Sequences :
       {m \in DOMAIN masters : masters[m].seq = s} \subseteq {masterTimeline[s]}
  /\ Built =>
       LET s == last.on
           m == masterTimeline[s]
           calls == masters[m].calls
           resolving(b) == Resolves(s, b)
       IN  /\ [i \in DOMAIN calls |-> calls[i].beat] = SelectSeq(beats[s], resolving)
           /\ \A id \in ChildrenOf(timelines, m) :
                /\ timelines[id].beat \in Range(beats[s])
                /\ Resolves(s, timelines[id].beat)

\* C10's case: a build that replaced a master whose notifications differ.
C10_RebuiltAfterMutation ==
  /\ last.op = "build"
  /\ last.arg = 2
  /\ masters[masterTimeline[last.on]].calls # <<>>

\* C8: for every bone the action touches, the transform getPoseAtTime(t)
\* reports (applied over bind, as a pose is applied) equals what the live
\* timeline has written to the bone at time t * duration.
C8_PreviewEqualsLive ==
  (last.op = "liveSeek" /\ last.arg = preview.t /\ preview.result.kind = "pose") =>
    \A b \in getAffectedBones(preview.action, poseLibrary) \cap RigBones :
      applyTo(preview.result.pose, resetToBind)[b] = skeleton[last.on][b]

\* C11: seek(time) and seekProgress(progress) on a sequence without master
\* timeline build one from the current beats and figures and position it; on
\* a sequence that has a master timeline they position that timeline and
\* build nothing (same master, same notifications, same sub-timelines, the
\* figures keep their current timeline and action).
C11_SeekBuildsOnlyWithoutMaster ==
  [][(ops' # ops /\ last'.op \in {"seek", "seekProgress"}) =>
       LET s == last'.on
           m == masterTimeline[s]
           n == masterTimeline'[s]
           resolving(b) == Resolves(s, b)
           length == MasterDuration(timelines', masters', n)
           position == IF last'.op = "seek" THEN last'.arg
                       ELSE (last'.arg * length) \div TDen
           unplayed(t) == [t EXCEPT !.started = FALSE, !.time = 0]
       IN  /\ n \in DOMAIN masters'
           /\ masters'[n].time = Clamp(position, 0, length)
           /\ last'.lazy = (m = 0)
           /\ IF m = 0
              THEN /\ [i \in DOMAIN masters'[n].calls |-> masters'[n].calls[i].beat]
                        = SelectSeq(beats[s], resolving)
                   /\ \A id \in ChildrenOf(timelines', n) :
                        timelines'[id].beat \in Range(beats[s])
              ELSE /\ n = m
                   /\ masters'[n].calls = masters[m].calls
                   /\ DOMAIN timelines' = DOMAIN timelines
                   /\ \A id \in DOMAIN timelines :
                        unplayed(timelines'[id]) = unplayed(timelines[id])
                   /\ currentTimeline' = currentTimeline
                   /\ currentAction' = currentAction]_vars

\* C11's case: a seekProgress that found no master timeline, built one with a
\* beat nested and moved its playhead.
C11_SeekBuiltLazily ==
  /\ last.op = "seekProgress"
  /\ last.lazy
  /\ ChildrenOf(timelines, masterTimeline[last.on]) # {}
  /\ masters[masterTimeline[last.on]].time > 0

\* The channels a bone has in either of two poses.
EitherChannels(a, b, bone) ==
  DOMAIN getBoneTransform(a, bone) \cup DOMAIN getBoneTransform(b, bone)

\* A pose's value of a bone's channel in fixed point, an absent channel read
\* as rotation, x, y = 0 and scaleX, scaleY = 1.
Read(pose, bone, ch) ==
  IF bone \in DOMAIN pose /\ Has(pose[bone], ch) THEN pose[bone][ch] * Units
  ELSE IF ch \in {"scaleX", "scaleY"} THEN Units ELSE 0

Dist(x, y) == IF x > y THEN x - y ELSE y - x

LerpAtEnd == blend.op = "lerp" /\ blend.t \in {0, TDen}
EndPose == IF blend.t = 0 THEN blend.a ELSE blend.b

\* C12 as stated: A.lerp(B, 0) equals A and A.lerp(B, 1) equals B on every
\* channel present in either pose, an absent channel read as its neutral
\* default.
C12_LerpEndsAreOperands ==
  LerpAtEnd =>
    \A bone \in DOMAIN blend.a \cup DOMAIN blend.b :
      \A ch \in EitherChannels(blend.a, blend.b, bone) :
        /\ bone \in DOMAIN blend.result
        /\ Has(blend.result[bone], ch)
        /\ blend.result[bone][ch] = Read(EndPose, bone, ch)

\* C12 amended: A.lerp(B, 0) equals A on every channel present in either
\* pose; A.lerp(B, 1) equals B on every such channel except that its rotation
\* is B's rotation plus a whole number of turns, the one within 180 degrees
\* of A's rotation, so it is B's rotation itself when the two are at most 180
\* degrees apart.
C12_LerpEndsUpToTurns ==
  LerpAtEnd =>
    \A bone \in DOMAIN blend.a \cup DOMAIN blend.b :
      \A ch \in EitherChannels(blend.a, blend.b, bone) :
        /\ bone \in DOMAIN blend.result
        /\ Has(blend.result[bone], ch)
        /\ LET got == blend.result[bone][ch]
               ra == Read(blend.a, bone, ch)
               rb == Read(blend.b, bone, ch)
           IN  IF ch = "rotation" /\ blend.t = TDen
               THEN /\ (got - rb) % (360 * Units) = 0
                    /\ Dist(got, ra) <= 180 * Units
                    /\ Dist(ra, rb) <= 180 * Units => got = rb
               ELSE got = Read(EndPose, bone, ch)

\* C12's case: lerp at t = 1 from rotation 170 to rotation -170, with a
\* channel that only B has: the result's rotation is 190.
C12_LerpEndBeyondHalfTurn ==
  /\ blend.op = "lerp"
  /\ blend.t = TDen
  /\ "torso" \in DOMAIN blend.a \cap DOMAIN blend.b
  /\ DOMAIN blend.a["torso"] = {"rotation"}
  /\ DOMAIN blend.b["torso"] = {"rotation", "y", "scaleX"}
  /\ blend.a["torso"].rotation = 170
  /\ blend.b["torso"].rotation = -170
  /\ blend.result["torso"].rotation = 190 * Units
  /\ blend.result["torso"].scaleX = 2 * Units

\* x changed by multiples of 360 into lo..hi, a range of 360 values
ReduceInto(x, lo, hi) == CHOOSE d \in lo..hi : (x - d) % 360 = 0

\* b - a reduced into the half-open range (-180, 180]
HalfOpenDelta(a, b) == ReduceInto(b - a, -179, 180)

\* b - a kept when within [-180, 180], lowered into (-180, 180] when above
\* and raised into [-180, 180) when below
ClosedDelta(a, b) ==
  IF b - a > 180 THEN ReduceInto(b - a, -179, 180)
  ELSE IF b - a < -180 THEN ReduceInto(b - a, -180, 179)
  ELSE b - a

\* a + d * t for t = tn / TDen, in fixed point
Along(a, d, tn) == a * Units + d * ((tn * Units) \div TDen)

\* The rotations interpolated by the operation last computed, each as
\* [a, b, got]: the operands' rotations (0 when absent) and the result's.
Interpolated ==
  IF blend.op = "lerp"
  THEN {[a |-> Get(getBoneTransform(blend.a, bone), "rotation", 0),
         b |-> Get(getBoneTransform(blend.b, bone), "rotation", 0),
         got |-> blend.result[bone].rotation] :
          bone \in {x \in DOMAIN blend.a \cup DOMAIN blend.b :
                      "rotation" \in EitherChannels(blend.a, blend.b, x)}}
  ELSE IF blend.op = "transformLerp"
  THEN {[a |-> Get(getBoneTransform(blend.a, "torso"), "rotation", 0),
         b |-> Get(getBoneTransform(blend.b, "torso"), "rotation", 0),
         got |-> blend.result.rotation]}
  ELSE {}

\* C13 as stated: Pose.lerp and Transform.lerp interpolate a rotation from a
\* to b as a + d * t with d = b - a reduced into (-180, 180]; from 170 to
\* -170 at t = 0.5 the result is 180.
C13_RotationAlongHalfOpenDelta ==
  /\ \A r \in Interpolated : r.got = Along(r.a, HalfOpenDelta(r.a, r.b), blend.t)
  /\ lerpAngle(170, -170, 1, 2) = 180 * Units
  /\ TransformLerpAngle(170, -170, 1, 2) = 180 * Units

\* C13 amended: the rotation is a + d * t with d = b - a reduced by multiples
\* of 360 into the closed range [-180, 180]: a difference within the range,
\* -180 included, is kept as it is, so d is always a shortest signed path;
\* from 170 to -170 at t = 0.5 the result is 180.
C13_RotationAlongClosedDelta ==
  /\ \A r \in Interpolated : r.got = Along(r.a, ClosedDelta(r.a, r.b), blend.t)
  /\ lerpAngle(170, -170, 1, 2) = 180 * Units
  /\ TransformLerpAngle(170, -170, 1, 2) = 180 * Units

\* C13's case: Transform.lerp from rotation 10 to rotation -170, half a turn
\* apart, at an interior t: the rotation went down from 10, and Pose.lerp of
\* the same poses agrees.
C13_HalfTurnGoesDown ==
  /\ blend.op = "transformLerp"
  /\ blend.t \in 1..(TDen - 1)
  /\ Get(getBoneTransform(blend.a, "torso"), "rotation", 0) = 10
  /\ Get(getBoneTransform(blend.b, "torso"), "rotation", 0) = -170
  /\ blend.result.rotation < 10 * Units
  /\ blend.result.rotation = lerp(blend.a, blend.b, blend.t, TDen)["torso"].rotation

\* What the result of A.lerp(B, t) holds for a bone's channel according to
\* the claims: the operands read with their neutral defaults, a rotation
\* along its shortest path.
Blended(bone, ch) ==
  LET ra == Read(blend.a, bone, ch) \div Units
      rb == Read(blend.b, bone, ch) \div Units
  IN  Along(ra, IF ch = "rotation" THEN ClosedDelta(ra, rb) ELSE rb - ra, blend.t)

\* C14 as stated: the result of A.lerp(B, t) has a bone for the union of the
\* bone names of A and B; a bone's channels in the result are those present
\* for it in A or in B, computed with the missing operand at its neutral
\* default, so a channel absent from both never appears.
C14_LerpBonesAndChannelsAreUnions ==
  blend.op = "lerp" =>
    /\ DOMAIN blend.result = DOMAIN blend.a \cup DOMAIN blend.b
    /\ \A bone \in DOMAIN blend.result :
         /\ DOMAIN blend.result[bone] = EitherChannels(blend.a, blend.b, bone)
         /\ \A ch \in DOMAIN blend.result[bone] :
              blend.result[bone][ch] = Blended(bone, ch)

\* C14 amended: the result of A.lerp(B, t) has a bone for every bone name of
\* A or B that has at least one channel in A or in B, and no other bone (a
\* bone whose entries hold no channel is left out); a bone's channels in the
\* result are those present for it in A or in B, computed with the missing
\* operand at its neutral default.
C14_LerpIsSparse ==
  blend.op = "lerp" =>
    /\ DOMAIN blend.result =
         {bone \in DOMAIN blend.a \cup DOMAIN blend.b :
            EitherChannels(blend.a, blend.b, bone) # {}}
    /\ \A bone \in DOMAIN blend.result :
         /\ DOMAIN blend.result[bone] = EitherChannels(blend.a, blend.b, bone)
         /\ \A ch \in DOMAIN blend.result[bone] :
              blend.result[bone][ch] = Blended(bone, ch)

\* C14's case: A names torso without any channel and spine with y, B names
\* spine with a rotation: the result has spine with both channels and no torso.
C14_EmptyEntryLeftOut ==
  /\ blend.op = "lerp"
  /\ DOMAIN blend.a = {"torso", "spine"}
  /\ DOMAIN blend.a["torso"] = {}
  /\ DOMAIN blend.b = {"spine"}
  /\ DOMAIN blend.result = {"spine"}
  /\ DOMAIN blend.result["spine"] = {"rotation", "y"}

\* C15: Pose.difference(from, to) emits, for each bone of `to`, exactly the
\* channels present in `to` for that bone (any of rotation, x, y, scaleX,
\* scaleY), each valued `to` minus `from`, `from` read as 0 when absent; a
\* channel absent in `to` is not emitted.
C15_DifferenceEmitsChannelsOfTo ==
  blend.op = "difference" =>
    /\ DOMAIN blend.result = DOMAIN blend.b
    /\ \A bone \in DOMAIN blend.b :
         /\ DOMAIN blend.result[bone] = DOMAIN blend.b[bone]
         /\ \A ch \in DOMAIN blend.b[bone] :
              blend.result[bone][ch] =
                blend.b[bone][ch] - Get(getBoneTransform(blend.a, bone), ch, 0)

\* C16: Pose.applyTo(skeleton) changes only the channels present in the
\* pose, on the bones the pose names (rotation, x and y to bind plus the
\* pose's value, scaleX and scaleY to the pose's value): every other channel
\* of those bones and every other bone keep their local transform, and an
\* entry for a bone the skeleton does not have is ignored.
C16_ApplyToTouchesOnlyPresentChannels ==
  [][(rig'.op = "applyTo" /\ rig' # rig) =>
       LET pose == RigPoses[rig'.pose]
       IN  /\ DOMAIN rig'.local = RigBones
           /\ \A b \in RigBones, ch \in Channels :
                rig'.local[b][ch] =
                  IF b \in DOMAIN pose /\ Has(pose[b], ch)
                  THEN pose[b][ch] * Units
                       + (IF ch \in {"rotation", "x", "y"}
                          THEN bindTransform(b)[ch] ELSE 0)
                  ELSE rig.local[b][ch]]_vars

\* C16's case: a pose that names torso (rotation, scaleX) and a bone the
\* skeleton does not have was applied; torso kept the x a tween had written,
\* spine kept the rotation it had been turned to.
C16_AppliedOverPosedSkeleton ==
  /\ rig.op = "applyTo"
  /\ rig.pose = "lean"
  /\ DOMAIN RigPoses["lean"] \ RigBones # {}
  /\ rig.local["torso"].rotation = bindTransform("torso").rotation + 90 * Units
  /\ rig.local["torso"].scaleX = 2 * Units
  /\ rig.local["torso"].x = bindTransform("torso").x + 5 * Units
  /\ rig.local["spine"].rotation # bindTransform("spine").rotation

\* The bind pose in world coordinates: spine and torso at the hips pointing
\* up, the left upper arm and the left thigh at their offsets, turned by the
\* spine's quarter turn.
BindWorld ==
  "spine" :> [x |-> 0, y |-> 0, rotation |-> -90]
  @@ "torso" :> [x |-> 0, y |-> 0, rotation |-> -90]
  @@ "upperArm-left" :> [x |-> 10, y |-> 20, rotation |-> 0]
  @@ "thigh-left" :> [x |-> -15, y |-> 0, rotation |-> 90]

\* Bone.getRotation(): the rotation relative to bind
getRotation(local, boneName) ==
  local[boneName].rotation - bindTransform(boneName).rotation

\* C17: whatever was applied, set or tweened before, Skeleton.resetToBind()
\* leaves every bone's local transform equal to its bind transform on all
\* five channels (getRotation() = 0) and the world transforms those of the
\* bind pose; setRotation(0) gives a bone its bind rotation.
C17_ResetToBindRestoresBind ==
  /\ rig.op = "resetToBind" =>
       \A b \in RigBones :
         /\ \A ch \in Channels :
              rig.local[b][ch] = Get(BindData(b), ch, NeutralDefault(ch)) * Units
         /\ getRotation(rig.local, b) = 0
         /\ \A c \in {"x", "y", "rotation"} : rig.world[b][c] = BindWorld[b][c] * Units
  /\ (rig.op = "setRotation" /\ rig.angle = 0) =>
       /\ getRotation(rig.local, rig.on) = 0
       /\ rig.local[rig.on].rotation = Get(BindData(rig.on), "rotation", 0) * Units

\* C17's case: a resetToBind of a skeleton all of whose bones were off bind.
C17_ResetAfterEveryBoneMoved ==
  /\ rig.op = "resetToBind"
  /\ rig.moved = Cardinality(RigBones)

\* The bone d is b or a descendant of b.
RECURSIVE IsBelow(_, _)
IsBelow(d, b) ==
  IF d = b THEN TRUE
  ELSE IF Parent(d) = "" THEN FALSE
  ELSE IsBelow(Parent(d), b)

\* The vector (dx, dy) rotated by theta.
RotateX(dx, dy, theta) == dx * Cos(theta) - dy * Sin(theta)
RotateY(dx, dy, theta) == dx * Sin(theta) + dy * Cos(theta)

\* C18: setRotation changes the rotation of its bone and no other local
\* value; when one bone was turned by theta, updateTransforms leaves every
\* local transform, adds theta to the world rotation of the bone and of
\* every descendant, rotates every descendant's world position by theta
\* about the bone's world origin and leaves the world transform of every
\* bone outside the subtree.
C18_ParentRotationPropagates ==
  [][/\ (rig'.op = "setRotation" /\ rig' # rig) =>
          \A b \in RigBones, ch \in Channels :
            (b # rig'.on \/ ch # "rotation") => rig'.local[b][ch] = rig.local[b][ch]
     /\ (rig'.op = "updateTransforms" /\ Cardinality(Turned) = 1) =>
          LET r == CHOOSE b \in Turned : TRUE
              theta == rig.pending[r]
              origin == rig.world[r]
          IN  /\ rig'.local = rig.local
              /\ \A d \in RigBones :
                   IF IsBelow(d, r)
                   THEN /\ rig'.world[d].rotation = rig.world[d].rotation + theta
                        /\ rig'.world[d].x - origin.x =
                             RotateX(rig.world[d].x - origin.x,
                                     rig.world[d].y - origin.y, theta)
                        /\ rig'.world[d].y - origin.y =
                             RotateY(rig.world[d].x - origin.x,
                                     rig.world[d].y - origin.y, theta)
                   ELSE rig'.world[d] = rig.world[d]]_vars

\* C18's case: torso, posed a quarter turn off bind, was set back, and the
\* world transforms were computed: the upper arm, its child, is back at its
\* bind world transform, with its local transform as it was.
C18_TorsoTurnedBack ==
  /\ rig.op = "updateTransforms"
  /\ rig.on = "torso"
  /\ rig.angle = -90
  /\ rig.local["upperArm-left"] = bindTransform("upperArm-left")
  /\ rig.local["spine"] = bindTransform("spine")
  /\ \A c \in {"x", "y", "rotation"} :
       rig.world["upperArm-left"][c] = BindWorld["upperArm-left"][c] * Units

\* What a preview returns for a keyframe's pose: the library's pose, null
\* when the library lacks it.
PoseOfKeyframe(kf) ==
  IF libraryHas(poseLibrary, kf.pose)
  THEN [kind |-> "pose", pose |-> ScalePose(poseLibrary[kf.pose])]
  ELSE [kind |-> "null"]

\* C19: for a t before the first keyframe's time getPoseAtTime(t) returns the
\* first keyframe's pose, for a t after the last keyframe's time the last
\* keyframe's pose.
C19_PreviewClampsToFirstAndLast ==
  LET kfs == preview.action.keyframes
  IN  (preview.result.kind # "none" /\ kfs # <<>>) =>
        /\ preview.t < kfs[1].time => preview.result = PoseOfKeyframe(kfs[1])
        /\ preview.t > kfs[Len(kfs)].time =>
             preview.result = PoseOfKeyframe(kfs[Len(kfs)])

\* C20: getPoseAtTime returns a complete pose or null for every action and
\* every t: it never throws and never returns a pose with undefined numbers.
C20_PreviewReturnsPoseOrNull ==
  preview.result.kind \in {"none", "pose", "null"}

\* C21: Figure.perform with an action name that is not in the library returns
\* null and leaves the figure's current action, its current timeline (the
\* reference and the timeline itself) and its skeleton as they were;
\* Figure.setPose with a pose name that is not in the library changes nothing
\* either.
C21_UnknownNameChangesNothing ==
  [][(ops' # ops /\ last'.op \in {"perform", "setPose"}) =>
       LET f == last'.on
           name == last'.name
       IN  /\ (last'.op = "perform" /\ name \notin DOMAIN FigureActionLibrary(f)) =>
                 /\ FigurePerformW(World, f, name).id = 0
                 /\ currentAction' = currentAction
                 /\ currentTimeline' = currentTimeline
                 /\ timelines' = timelines
                 /\ skeleton' = skeleton
           /\ (last'.op = "setPose" /\ name \notin DOMAIN poseLibrary) =>
                 UNCHANGED <<figureVars, masters, masterTimeline>>]_vars

\* perform("missing_action") has run on a figure that is in the middle of an
\* action: it has a current timeline, and its skeleton is away from bind.
C21_UnknownActionDuringAction ==
  /\ last.op = "perform"
  /\ last.name \notin DOMAIN FigureActionLibrary(last.on)
  /\ currentAction[last.on] # NoAction
  /\ currentTimeline[last.on] \in DOMAIN timelines
  /\ skeleton[last.on] # resetToBind

\* C22: a Sequence without master timeline (Empty) stays without one under
\* pause(), resume() and stop(), and no timeline is created; play() from any
\* state leaves a master built from the current beats that is playing at time
\* 0; pause() on a playing master leaves it paused at the same playhead, and
\* resume() leaves it playing at the same playhead; stop() leaves the master
\* paused at time 0.
C22_PlaybackStates ==
  [][(ops' # ops /\ last'.op \in {"play", "pause", "resume", "stop"}) =>
       LET s == last'.on
           m == masterTimeline[s]
           n == masterTimeline'[s]
           resolving(b) == Resolves(s, b)
       IN  /\ (last'.op # "play" /\ m = 0) =>
                 /\ n = 0
                 /\ masters' = masters
                 /\ DOMAIN timelines' \subseteq DOMAIN timelines
           /\ last'.op = "play" =>
                 /\ n \in DOMAIN masters'
                 /\ masters'[n].playing
                 /\ masters'[n].time = 0
                 /\ [i \in DOMAIN masters'[n].calls |-> masters'[n].calls[i].beat]
                      = SelectSeq(beats[s], resolving)
                 /\ \A id \in ChildrenOf(timelines', n) :
                      /\ timelines'[id].beat \in Range(beats[s])
                      /\ ~timelines'[id].started
           /\ (last'.op = "pause" /\ m # 0) =>
                 /\ n = m
                 /\ ~masters'[n].playing
                 /\ masters'[n].time = masters[m].time
           /\ (last'.op = "resume" /\ m # 0) =>
                 /\ n = m
                 /\ masters'[n].playing
                 /\ masters'[n].time = masters[m].time
           /\ (last'.op = "stop" /\ m # 0) =>
                 /\ n = m
                 /\ ~masters'[n].playing
                 /\ masters'[n].time = 0]_vars

\* A pause() that found the master playing with the playhead past 0.
C22_PausedMidPlay ==
  /\ last.op = "pause"
  /\ last.arg = 1
  /\ masters[masterTimeline[last.on]].time > 0
  /\ ~masters[masterTimeline[last.on]].playing

\* The place of a bone in the order updateTransforms recomputed the bones in.
VisitsOf(boneName) == {i \in DOMAIN load.visited : load.visited[i] = boneName}

Updated == load.pc = "idle" /\ load.op = "updateTransforms"

\* C23: when updateTransforms() has returned, it has recomputed the world
\* transform of every bone of the skeleton exactly once, a parent before its
\* children; every bone with a parent has world rotation = its parent's world
\* rotation + its own local rotation, and every bone without a parent has a
\* world transform equal to its local transform.
C23_UpdateRecomputesEveryBoneOnce ==
  Updated =>
    \A b \in SeqRange(load.bones) :
      /\ Cardinality(VisitsOf(b)) = 1
      /\ IF load.parent[b] # ""
         THEN /\ \A i \in VisitsOf(b) :
                   \E j \in VisitsOf(load.parent[b]) : j < i
              /\ load.world[b].rotation
                   = load.world[load.parent[b]].rotation + load.local[b].rotation
         ELSE load.world[b] = load.local[b]

\* C24: construction never throws; when it has returned, every bone of the
\* definition exists, a bone whose parentName names no bone has no parent, and
\* rootBones is exactly the set of the bones without parent (each once).
C24_RootBonesAreTheParentless ==
  /\ load.pc # "overflow"
  /\ (load.pc = "idle" /\ load.op = "new") =>
       /\ load.bones = DefBones
       /\ \A b \in SeqRange(DefBones) :
            load.data[b] \notin SeqRange(DefBones) => load.parent[b] = ""
       /\ SeqRange(load.rootBones) = {b \in SeqRange(load.bones) : load.parent[b] = ""}
       /\ Cardinality(SeqRange(load.rootBones)) = Len(load.rootBones)

\* The bones that name the joint as their start or their end.
BonesAt(jointName) ==
  {b \in SeqRange(load.bones) : jointName \in {load.jointStart[b], load.jointEnd[b]}}

\* C25: when updateTransforms() has returned, the world position of every
\* joint that a bone is linked to is the one updateWorldPosition computes
\* from the world translation and rotation of a bone it belongs to.
C25_JointsFollowTheirBone ==
  Updated =>
    \A j \in DOMAIN load.joints :
      BonesAt(j) # {} =>
        \E b \in BonesAt(j) :
          load.joints[j] = updateWorldPosition(j, load.world[b].x, load.world[b].y,
                                               load.world[b].rotation)

\* C29: the construction of a Skeleton, updateTransforms() and resetToBind()
\* return, whatever the definition's parent references are: every call that
\* has started comes back to the caller.
C29_SkeletonCallsReturn == (load.pc # "idle") ~> (load.pc = "idle")

\* resetToBind() has returned on the skeleton of a definition in which the
\* spine is its own parent and thigh and shin are each other's.
C29_ResetOfCyclicDefinition ==
  /\ load.pc = "idle"
  /\ load.op = "resetToBind"
  /\ load.data["spine"] = "spine"
  /\ load.data["thigh"] = "shin"
  /\ load.data["shin"] = "thigh"
  /\ load.parent["spine"] = "spine"
  /\ load.children["shin"] = <<"thigh">>

Compiled == preview.result.kind = "timeline"

\* The keyframe pairs (i, i + 1) of the action under preview, and those whose
\* two poses are both in the library.
Pairs == 1..(Len(preview.action.keyframes) - 1)
ResolvedPairs ==
  {i \in Pairs : /\ preview.action.keyframes[i].pose \in DOMAIN poseLibrary
                 /\ preview.action.keyframes[i + 1].pose \in DOMAIN poseLibrary}

\* The bones of the rig that a keyframe's pose names.
NamedBones ==
  {b \in RigBones :
     \E i \in DOMAIN preview.action.keyframes :
       /\ preview.action.keyframes[i].pose \in DOMAIN poseLibrary
       /\ b \in DOMAIN poseLibrary[preview.action.keyframes[i].pose]}

\* The k-th smallest element of a set of numbers.
RECURSIVE Nth(_, _)
Nth(S, k) ==
  LET least == CHOOSE x \in S : \A y \in S : x <= y
  IN  IF k = 1 THEN least ELSE Nth(S \ {least}, k - 1)

\* The segment tw is the one of the keyframe pair (i, i + 1).
SegmentOfPair(tw, i) ==
  LET kfs == preview.action.keyframes
  IN  /\ tw.start = kfs[i].time * preview.action.duration
      /\ tw.start + tw.dur = kfs[i + 1].time * preview.action.duration
      /\ tw.ease = IF kfs[i + 1].easing = "" THEN "power2.inOut" ELSE kfs[i + 1].easing

NoOverlap(tws) ==
  \A i, j \in DOMAIN tws : i < j => tws[i].start + tws[i].dur <= tws[j].start

Contiguous(tws) ==
  \A i \in DOMAIN tws : i < Len(tws) => tws[i].start + tws[i].dur = tws[i + 1].start

\* C26: the timeline has segments for exactly the bones of the skeleton that
\* a keyframe pose names; for each of them one segment per consecutive
\* keyframe pair, spanning [kf_i.time * duration, kf_i+1.time * duration] with
\* the easing of kf_i+1 (power2.inOut by default); a bone's segments are
\* contiguous and do not overlap.
C26_OneSegmentPerKeyframePair ==
  Compiled =>
    LET tws == preview.result.tweens
    IN  /\ DOMAIN tws = NamedBones
        /\ \A b \in DOMAIN tws :
             /\ Len(tws[b]) = Cardinality(Pairs)
             /\ \A i \in DOMAIN tws[b] : SegmentOfPair(tws[b][i], i)
             /\ Contiguous(tws[b])
             /\ NoOverlap(tws[b])

\* C26, amended: one segment per consecutive keyframe pair whose two poses
\* are both in the pose library, in the order of the pairs; a bone's segments
\* do not overlap, and they are contiguous when every keyframe pose is in the
\* library.
C26_OneSegmentPerResolvedPair ==
  Compiled =>
    LET tws == preview.result.tweens
    IN  /\ DOMAIN tws = NamedBones
        /\ \A b \in DOMAIN tws :
             /\ Len(tws[b]) = Cardinality(ResolvedPairs)
             /\ \A k \in DOMAIN tws[b] : SegmentOfPair(tws[b][k], Nth(ResolvedPairs, k))
             /\ NoOverlap(tws[b])
             /\ ResolvedPairs = Pairs => Contiguous(tws[b])

\* An action of four keyframes whose third pose is not in the library: the
\* torso has the segment of the first pair and no other.
C26_PairWithMissingPoseSkipped ==
  /\ Compiled
  /\ Len(preview.action.keyframes) = 4
  /\ ResolvedPairs = {1}
  /\ "torso" \in DOMAIN preview.result.tweens
  /\ Len(preview.result.tweens["torso"]) = 1

\* The beats of a sequence that build resolves, as the notifications build
\* schedules for them.
NotificationsOf(s) ==
  LET resolving(b) == Resolves(s, b)
      bs == SelectSeq(beats[s], resolving)
  IN  [i \in DOMAIN bs |-> [at |-> bs[i].time, beat |-> bs[i]]]

\* C27: the master that build() leaves holds one beat-started notification at
\* beat.time for every beat that resolves and none for any other beat; while
\* it is played from 0, the notifications delivered so far are those at or
\* before the playhead (all of them at the end), in non-decreasing beat time,
\* beats of one time in the order they were added, each with its own beat.
C27_NotificationsPerResolvedBeat ==
  \A s \in Edited :
    masterTimeline[s] # 0 =>
      LET master == masters[masterTimeline[s]]
          due(c) == c.at <= master.time
      IN  /\ master.calls = NotificationsOf(s)
          /\ master.run = 2 =>
               /\ master.fired = SelectSeq(NotificationsOf(s), due)
               /\ \A i, j \in DOMAIN master.fired :
                    i < j =>
                      \/ master.fired[i].beat.time < master.fired[j].beat.time
                      \/ /\ master.fired[i].beat.time = master.fired[j].beat.time
                         /\ master.fired[i].beat.ord < master.fired[j].beat.ord

\* A sequence of three beats, one of them skipped (added first) and the other
\* two at the same time, played to its end: both notifications were
\* delivered, the beat added first before the beat added last.
C27_PlayedToEndWithTie ==
  \E s \in Edited :
    /\ masterTimeline[s] # 0
    /\ LET master == masters[masterTimeline[s]]
       IN  /\ master.run = 2
           /\ ~master.playing
           /\ master.time = MasterDuration(timelines, masters, masterTimeline[s])
           /\ Len(beats[s]) = 3
           /\ Len(master.fired) = 2
           /\ master.fired[1].beat.time = master.fired[2].beat.time
           /\ master.fired[1].beat.ord = 2
           /\ master.fired[2].beat.ord = 3
\* getDuration()'s view of the Sequence's library: action name -> duration, in
\* the beats' time unit.
SequenceDurations(s) ==
  [a \in DOMAIN SequenceActionLibrary(s) |-> SequenceActionLibrary(s)[a].duration * TDen]

\* The action sub-timelines nested in the master m, and the latest end of any.
NestedIn(m) == {id \in DOMAIN timelines : timelines[id].parent = m}
MasterEnd(m) ==
  SetMax({timelines[id].at + TimelineDuration(TweensOf(timelines[id])) : id \in NestedIn(m)})

SameLibraries(s) == \A f \in seqFigures[s] : libraries.fig[f] = libraries.seq[s]

C30_SequenceFiguresExist ==
  /\ \A n \in DOMAIN state.sequences :
       \A i \in DOMAIN state.sequences[n] :
         state.sequences[n][i] \in DOMAIN state.figures
  /\ (state.op = "export_sequence" /\ ~state.out.error) =>
       \A i \in DOMAIN state.out.figures : state.out.figures[i] # UndefinedFigure
====
